---- MODULE Spec2Model ----
(***************************************************************************)
(* Model of the agentkit agent adapter (agents/agentkit/adapter.go) and of *)
(* the genagents command that drives it.                                   *)
(*                                                                         *)
(* Go values are represented as follows.                                   *)
(*   - a string is a TLA+ string; a []string is a sequence (a nil slice    *)
(*     and an empty slice are both << >>);                                 *)
(*   - a pointer or an error that may be nil is a sequence of length <= 1: *)
(*     << >> is nil, << v >> is a value;                                   *)
(*   - a Go map is a function; ranging over a map visits its keys in an    *)
(*     order the language leaves unspecified (the runtime randomises it),  *)
(*     so every place the code ranges over a map is a choice over all the  *)
(*     orders, never one fixed order;                                      *)
(*   - a JSON document ("bytes") is the sequence of its members in the     *)
(*     order they are written, with a flag telling whether the text is     *)
(*     complete (a truncated text is not).                                 *)
(***************************************************************************)
EXTENDS Integers, Sequences, FiniteSets, TLC

VARIABLES
    toolMapping,    \* package variable toolMapping (canonical -> agentkit tool)
    modelMapping,   \* package variable modelMapping (canonical -> agentkit model)
    input,          \* the argument the caller holds: an agent or a byte blob
    call,           \* the last adapter call: operation, argument, results
    pc,             \* genagents: position of the command
    registry,       \* core registry: adapter name -> adapter
    flags,          \* genagents: parsed command line / project files
    idx,            \* genagents: index of the next target of the loop
    fs,             \* file system: directories and files
    attempted,      \* genagents: targets generateAgents was called for
    stderr,         \* genagents: error reports written so far
    exitCode,       \* genagents: process exit status (-1 while running)
    threads         \* concurrent callers: each one's call, position and locals

vars == <<toolMapping, modelMapping, input, call, pc, registry, flags, idx,
          fs, attempted, stderr, exitCode, threads>>

adapterVars == <<toolMapping, modelMapping, input, call>>
genVars == <<pc, registry, flags, idx, fs, attempted, stderr, exitCode>>

(***************************************************************************)
(* Bounds of the model.                                                    *)
(***************************************************************************)
MaxTools == 2       \* longest tools list of an agent or of a document

(***************************************************************************)
(* Helpers on sequences and functions.                                     *)
(***************************************************************************)
Range(s) == {s[i] : i \in DOMAIN s}

SeqsUpTo(S, n) == UNION {[1..k -> S] : k \in 0..n}

\* All the orders in which the elements of the finite set S can be visited.
Orders(S) == {s \in [1..Cardinality(S) -> S] : Range(s) = S}

Count(s, x) == Cardinality({i \in DOMAIN s : s[i] = x})

\* A Go map with no entry.
EmptyMap == [x \in {} |-> x]

\* No concurrent caller.
NoThreads == [t \in {} |-> t]

\* A file system: the directories that exist and the files with their content.
EmptyFS == [dirs |-> {}, files |-> EmptyMap]

(***************************************************************************)
(* The two mapping tables, as the package initialises them.                *)
(***************************************************************************)
toolMappingTable ==
    "WebSearch" :> "shell" @@ "WebFetch" :> "shell" @@ "Read" :> "read" @@
    "Write" :> "write" @@ "Glob" :> "glob" @@ "Grep" :> "grep" @@
    "Bash" :> "shell" @@ "Edit" :> "write" @@ "Task" :> "shell"

modelMappingTable ==
    "haiku" :> "claude-3-haiku-20240307" @@
    "sonnet" :> "claude-3-5-sonnet-20241022" @@
    "opus" :> "claude-3-opus-20240229"

(***************************************************************************)
(* strings.ToLower on the identifiers of the model: the identifiers that   *)
(* hold an upper-case letter are listed with their lower-case form, every  *)
(* other identifier of the model is lower-case already.                    *)
(***************************************************************************)
LowerTable ==
    "WebSearch" :> "websearch" @@ "WebFetch" :> "webfetch" @@ "Read" :> "read" @@
    "Write" :> "write" @@ "Glob" :> "glob" @@ "Grep" :> "grep" @@
    "Bash" :> "bash" @@ "Edit" :> "edit" @@ "Task" :> "task" @@
    "CustomTool" :> "customtool" @@ "Shell" :> "shell" @@ "GPT-4" :> "gpt-4" @@
    "Name" :> "name" @@ "TOOLS" :> "tools"

ToLower(s) == IF s \in DOMAIN LowerTable THEN LowerTable[s] ELSE s

(***************************************************************************)
(* Input universes.                                                        *)
(***************************************************************************)
\* Canonical tools: the keys of the table that share a destination and one
\* key that has a destination of its own (Glob and Grep behave as Read
\* does), two unknown tools, one of which lower-cases to a mapped
\* destination, and one unknown lower-case tool that is itself a
\* destination identifier.
ToolUniverse ==
    {"WebSearch", "WebFetch", "Bash", "Task", "Write", "Edit", "Read",
     "CustomTool", "Shell", "read"}

ModelUniverse == {"", "haiku", "sonnet", "opus", "GPT-4"}

Agent(n, d, i, t, m) ==
    [Name |-> n, Description |-> d, Instructions |-> i, Tools |-> t, Model |-> m]

Agents ==
    {Agent(n, "desc", "body", t, m) :
        n \in {"demo"}, t \in SeqsUpTo(ToolUniverse, MaxTools), m \in ModelUniverse}

(***************************************************************************)
(* AgentConfig and its JSON encoding (encoding/json on the struct tags).   *)
(***************************************************************************)
AgentConfig(n, d, i, t, m, k) ==
    [Name |-> n, Description |-> d, Instructions |-> i, Tools |-> t, Model |-> m,
     MaxTokens |-> k]

ZeroConfig == AgentConfig("", "", "", << >>, "", 0)

JString(s) == [t |-> "string", s |-> s, a |-> << >>, n |-> 0]
JArray(a) == [t |-> "array", s |-> "", a |-> a, n |-> 0]
JNumber(n) == [t |-> "number", s |-> "", a |-> << >>, n |-> n]
JNull == [t |-> "null", s |-> "", a |-> << >>, n |-> 0]

Member(k, v) == [key |-> k, val |-> v]

\* A JSON text: its members in order, whether the text is complete (closed)
\* and whether a newline follows it.
Doc(members, complete, newline) ==
    [members |-> members, complete |-> complete, newline |-> newline]

\* json.MarshalIndent(cfg, "", "  "): the fields in declaration order; a nil
\* slice is written as null; "model" and "max_tokens" carry omitempty. Every
\* field is a string, a string slice or an int, which always encode, so the
\* error is nil for every AgentConfig.
MarshalIndent(cfg) ==
    LET always == << Member("name", JString(cfg.Name)),
                     Member("description", JString(cfg.Description)),
                     Member("instructions", JString(cfg.Instructions)),
                     Member("tools", IF cfg.Tools = << >> THEN JNull
                                     ELSE JArray(cfg.Tools)) >>
        model == IF cfg.Model = "" THEN << >>
                 ELSE << Member("model", JString(cfg.Model)) >>
        maxTokens == IF cfg.MaxTokens = 0 THEN << >>
                     ELSE << Member("max_tokens", JNumber(cfg.MaxTokens)) >>
    IN  [data |-> << Doc(always \o model \o maxTokens, TRUE, FALSE) >>,
         err |-> << >>]

JSONFields == {"name", "description", "instructions", "tools", "model", "max_tokens"}

\* The struct field a member key selects: an exact match, else a
\* case-insensitive one; "" when the key names no field (it is skipped).
FieldOf(key) ==
    IF key \in JSONFields THEN key
    ELSE IF ToLower(key) \in JSONFields THEN ToLower(key)
    ELSE ""

\* Decoding one member into cfg: a value of the field's type is stored, null
\* leaves a string or an int alone and sets a slice to nil, any other value
\* is a type error and the field is left alone.
DecodeMember(cfg, m) ==
    LET f == FieldOf(m.key)
        v == m.val
        str(field) ==
            IF v.t = "string" THEN [cfg |-> [cfg EXCEPT ![field] = v.s], err |-> << >>]
            ELSE IF v.t = "null" THEN [cfg |-> cfg, err |-> << >>]
            ELSE [cfg |-> cfg, err |-> << "UnmarshalTypeError" >>]
    IN  CASE f = "name" -> str("Name")
          [] f = "description" -> str("Description")
          [] f = "instructions" -> str("Instructions")
          [] f = "model" -> str("Model")
          [] f = "tools" ->
                IF v.t = "array" THEN [cfg |-> [cfg EXCEPT !.Tools = v.a], err |-> << >>]
                ELSE IF v.t = "null" THEN [cfg |-> [cfg EXCEPT !.Tools = << >>], err |-> << >>]
                ELSE [cfg |-> cfg, err |-> << "UnmarshalTypeError" >>]
          [] f = "max_tokens" ->
                IF v.t = "number" THEN [cfg |-> [cfg EXCEPT !.MaxTokens = v.n], err |-> << >>]
                ELSE IF v.t = "null" THEN [cfg |-> cfg, err |-> << >>]
                ELSE [cfg |-> cfg, err |-> << "UnmarshalTypeError" >>]
          [] OTHER -> [cfg |-> cfg, err |-> << >>]

RECURSIVE DecodeMembers(_, _, _)
\* The members are decoded in order; the first type error is the one
\* reported and decoding goes on after it.
DecodeMembers(members, cfg, err) ==
    IF members = << >> THEN [cfg |-> cfg, err |-> err]
    ELSE LET r == DecodeMember(cfg, Head(members))
         IN  DecodeMembers(Tail(members), r.cfg, IF err = << >> THEN r.err ELSE err)

\* json.Unmarshal(data, &cfg): the text is validated first, so a truncated
\* text is a syntax error and nothing is decoded.
Unmarshal(data) ==
    IF ~data.complete
    THEN [cfg |-> ZeroConfig, err |-> << "SyntaxError: unexpected end of JSON input" >>]
    ELSE DecodeMembers(data.members, ZeroConfig, << >>)

(***************************************************************************)
(* agentToConfig: canonical agent -> agentkit config.                      *)
(***************************************************************************)
\* One tool of the loop: the table's value for a key of the table, the
\* lower-cased tool otherwise.
MapTool(tool) ==
    IF tool \in DOMAIN toolMapping THEN toolMapping[tool] ELSE ToLower(tool)

\* Mutant of toolSet: a tool the table does not know is skipped.
toolSet_DropUnknown(agent) ==
    {toolMapping[agent.Tools[i]] :
        i \in {j \in DOMAIN agent.Tools : agent.Tools[j] \in DOMAIN toolMapping}}

\* The keys of toolSet once the loop over agent.Tools is over.
toolSet(agent) == {MapTool(agent.Tools[i]) : i \in DOMAIN agent.Tools}

\* Mutant of RangeToolSet: each mapped tool is appended to cfg.Tools as it
\* is met, with no set in between.
RangeToolSet_NoDedup(agent) ==
    {[i \in DOMAIN agent.Tools |-> MapTool(agent.Tools[i])]}

\* The values cfg.Tools can take: "for tool := range toolSet" appends the
\* keys of the set in the order the map iteration yields them.
RangeToolSet(agent) == Orders(toolSet(agent))

MapModel(model) ==
    IF model \in DOMAIN modelMapping THEN modelMapping[model]
    ELSE IF model # "" THEN model
    ELSE ""

\* agentToConfig(agent), for the map iteration order that yields tools.
agentToConfig(agent, tools) ==
    AgentConfig(agent.Name, agent.Description, agent.Instructions, tools,
                MapModel(agent.Model), 0)

(***************************************************************************)
(* configToAgent: agentkit config -> canonical agent.                      *)
(***************************************************************************)
Sources(v) == {k \in DOMAIN toolMapping : toolMapping[k] = v}

RECURSIVE ReverseOver(_)
\* The reverse tables over the destinations D: one source per destination.
ReverseOver(D) ==
    IF D = {} THEN {[x \in {} |-> x]}
    ELSE LET v == CHOOSE x \in D : TRUE
         IN  {(v :> k) @@ r : k \in Sources(v), r \in ReverseOver(D \ {v})}

\* The values reverseToolMapping can take. The loop "for k, v := range
\* toolMapping { reverseToolMapping[v] = k }" leaves at v the key visited
\* last among the keys that map to v; the iteration order being
\* unspecified, any of them can be the last.
reverseToolMappings == ReverseOver(Range(toolMapping))

\* Mutant of ReverseTool: a tool the reverse table does not know is
\* lower-cased, as in the forward direction.
ReverseTool_Lower(rev, tool) == IF tool \in DOMAIN rev THEN rev[tool] ELSE ToLower(tool)

ReverseTool(rev, tool) == IF tool \in DOMAIN rev THEN rev[tool] ELSE tool

\* Mutant of configToAgent: a tool the reverse table does not know is left
\* out of the canonical agent.
configToAgent_DropUnknown(cfg, rev) ==
    Agent(cfg.Name, cfg.Description, cfg.Instructions,
          [i \in DOMAIN SelectSeq(cfg.Tools, LAMBDA t : t \in DOMAIN rev) |->
              rev[SelectSeq(cfg.Tools, LAMBDA t : t \in DOMAIN rev)[i]]],
          cfg.Model)

\* configToAgent(cfg), for the reverse table rev the first loop built.
configToAgent(cfg, rev) ==
    Agent(cfg.Name, cfg.Description, cfg.Instructions,
          [i \in DOMAIN cfg.Tools |-> ReverseTool(rev, cfg.Tools[i])],
          cfg.Model)

(***************************************************************************)
(* Adapter.Marshal and Adapter.Parse.                                      *)
(***************************************************************************)
AdapterName == "agentkit"

ParseError(format, cause) == [type |-> "ParseError", Format |-> format, Err |-> cause]
MarshalError(format, cause) == [type |-> "MarshalError", Format |-> format, Err |-> cause]

\* Mutant of Marshal: a tool or a model the tables do not know is an error.
Marshal_RejectUnknown(agent, tools) ==
    IF \/ \E i \in DOMAIN agent.Tools : agent.Tools[i] \notin DOMAIN toolMapping
       \/ agent.Model \notin DOMAIN modelMapping \cup {""}
    THEN [data |-> << >>, err |-> << MarshalError("agentkit", "unknown identifier") >>]
    ELSE [data |-> << [MarshalIndent(agentToConfig(agent, tools)).data[1]
                          EXCEPT !.newline = TRUE] >>,
          err |-> << >>]

\* Adapter.Marshal(agent), for the map iteration order that yields tools:
\* the bytes (nil on error) and the error (nil on success).
Marshal(agent, tools) ==
    LET enc == MarshalIndent(agentToConfig(agent, tools))
    IN  IF enc.err # << >>
        THEN [data |-> << >>, err |-> << MarshalError("agentkit", enc.err[1]) >>]
        ELSE [data |-> << [enc.data[1] EXCEPT !.newline = TRUE] >>, err |-> << >>]

\* Mutant of Parse: the decoder's error is dropped and whatever was decoded
\* is returned.
Parse_SwallowError(data, rev) ==
    [agent |-> << configToAgent(Unmarshal(data).cfg, rev) >>, err |-> << >>]

\* Adapter.Parse(data), for the reverse table rev: the agent (nil on error)
\* and the error (nil on success).
Parse(data, rev) ==
    LET dec == Unmarshal(data)
    IN  IF dec.err # << >>
        THEN [agent |-> << >>, err |-> << ParseError("agentkit", dec.err[1]) >>]
        ELSE [agent |-> << configToAgent(dec.cfg, rev) >>, err |-> << >>]

(***************************************************************************)
(* The byte blobs handed to Parse: agentkit documents written by hand, some *)
(* of them cut short, some with a value of the wrong type.                 *)
(***************************************************************************)
DocToolUniverse == {"shell", "write", "read", "CustomTool", "Bash"}

DocModelUniverse == {"", "claude-3-5-sonnet-20241022", "opus", "my-model"}

DocToolsValues ==
    {JArray(a) : a \in SeqsUpTo(DocToolUniverse, MaxTools)} \cup {JNull, JString("shell")}

InputDocs ==
    {Doc(<< Member("name", JString("demo")), Member("tools", tv) >> \o
         (IF m = "" THEN << >> ELSE << Member("model", JString(m)) >>), c, FALSE) :
        tv \in DocToolsValues, m \in DocModelUniverse, c \in BOOLEAN}
    \cup {Doc(<< >>, FALSE, FALSE),
          Doc(<< Member("Name", JString("demo")), Member("TOOLS", JArray(<< "glob" >>)),
                 Member("extra", JNumber(1)) >>, TRUE, TRUE),
          Doc(<< Member("name", JNumber(1)), Member("tools", JArray(<< "grep" >>)),
                 Member("max_tokens", JString("many")) >>, TRUE, FALSE)}

(***************************************************************************)
(* State of the adapter calls.                                             *)
(***************************************************************************)
AgentInput(a) == [kind |-> "agent", agent |-> << a >>, data |-> << >>]
BytesInput(d) == [kind |-> "bytes", agent |-> << >>, data |-> << d >>]

CallRecord(op, src, argAgent, argData, retAgent, retData, err) ==
    [op |-> op, src |-> src, argAgent |-> argAgent, argData |-> argData,
     retAgent |-> retAgent, retData |-> retData, err |-> err]

NoCall == CallRecord("none", "none", << >>, << >>, << >>, << >>, << >>)

\* The command is not running: the variables of genagents at rest.
GenIdle ==
    /\ pc = "idle"
    /\ registry = EmptyMap
    /\ flags = << >>
    /\ idx = 0
    /\ fs = EmptyFS
    /\ attempted = << >>
    /\ stderr = << >>
    /\ exitCode = -1

Init ==
    /\ toolMapping = toolMappingTable
    /\ modelMapping = modelMappingTable
    /\ input \in {AgentInput(a) : a \in Agents} \cup {BytesInput(d) : d \in InputDocs}
    /\ call = NoCall
    /\ threads = NoThreads
    /\ GenIdle

\* a.Marshal(agent) on the caller's agent.
MarshalCall ==
    /\ input.kind = "agent"
    /\ \E tools \in RangeToolSet(input.agent[1]) :
          LET r == Marshal(input.agent[1], tools)
          IN  call' = CallRecord("Marshal", "input", input.agent, << >>, << >>,
                                 r.data, r.err)
    /\ UNCHANGED <<toolMapping, modelMapping, input, threads, genVars>>

\* a.Parse(data) on the caller's bytes.
ParseCall ==
    /\ input.kind = "bytes"
    /\ \E rev \in reverseToolMappings :
          LET r == Parse(input.data[1], rev)
          IN  call' = CallRecord("Parse", "input", << >>, input.data, r.agent,
                                 << >>, r.err)
    /\ UNCHANGED <<toolMapping, modelMapping, input, threads, genVars>>

\* a.Parse(data) on the bytes the last Marshal call returned.
ParseMarshalled ==
    /\ call.op = "Marshal"
    /\ call.retData # << >>
    /\ \E rev \in reverseToolMappings :
          LET r == Parse(call.retData[1], rev)
          IN  call' = CallRecord("Parse", "marshalled", << >>, call.retData, r.agent,
                                 << >>, r.err)
    /\ UNCHANGED <<toolMapping, modelMapping, input, threads, genVars>>

Next == MarshalCall \/ ParseCall \/ ParseMarshalled

Spec == Init /\ [][Next]_vars

(***************************************************************************)
(* The core registry (agents/core): name -> adapter, filled by the init    *)
(* functions of the adapter packages.                                      *)
(***************************************************************************)
AdapterRecord(name, ext) == [name |-> name, ext |-> ext]

\* The adapter packages linked into genagents.
LinkedAdapters ==
    {AdapterRecord("agentkit", ".json"), AdapterRecord("claude", ".md"),
     AdapterRecord("kiro", ".json")}

\* core.Register(adapter): the adapter is stored under its Name().
Register(reg, adapter) == (adapter.name :> adapter) @@ reg

\* core.GetAdapter(name): the adapter and whether it was found.
GetAdapter(name) ==
    IF name \in DOMAIN registry
    THEN [adapter |-> << registry[name] >>, ok |-> TRUE]
    ELSE [adapter |-> << >>, ok |-> FALSE]

\* The adapter names of the model in lexicographic order.
SortedNames == << "agentkit", "claude", "doesnotexist", "kiro" >>

\* core.AdapterNames(): the registered names, in a stable order.
AdapterNames == SelectSeq(SortedNames, LAMBDA n : n \in DOMAIN registry)

(***************************************************************************)
(* Strings, paths and the file system. A path is the sequence of its       *)
(* components.                                                             *)
(***************************************************************************)
RECURSIVE Join(_, _)
\* strings.Join(elems, sep), as the pieces of the text in order.
Join(elems, sep) ==
    IF Len(elems) = 0 THEN << >>
    ELSE IF Len(elems) = 1 THEN << elems[1] >>
    ELSE << elems[1], sep >> \o Join(Tail(elems), sep)

\* The %q verb on a plain identifier.
Quote(s) == "\"" \o s \o "\""

RECURSIVE PathString(_)
PathString(p) ==
    IF Len(p) = 0 THEN "."
    ELSE IF Len(p) = 1 THEN p[1]
    ELSE p[1] \o "/" \o PathString(Tail(p))

\* strings.TrimSpace on the strings of the model: the ones with white space
\* at an end are listed, the others have none.
TrimTable == " kiro" :> "kiro" @@ "kiro " :> "kiro" @@ " out" :> "out"

TrimSpace(s) == IF s \in DOMAIN TrimTable THEN TrimTable[s] ELSE s

\* TrimSpace on a directory given as a path: white space can only stand
\* before its first component and after its last one.
TrimSpacePath(p) ==
    IF Len(p) = 0 THEN p
    ELSE IF Len(p) = 1 THEN << TrimSpace(p[1]) >>
    ELSE << TrimSpace(p[1]) >> \o SubSeq(p, 2, Len(p) - 1) \o << TrimSpace(p[Len(p)]) >>

\* filepath.Dir and filepath.Join.
Dir(p) == SubSeq(p, 1, Len(p) - 1)
PathJoin(dir, name) == dir \o << name >>

\* An error made by fmt.Errorf or a report line: the pieces of its text and
\* the error it wraps, if any.
Errorf(pieces, cause) == [msg |-> pieces, cause |-> cause]

WriteError(path, cause) == [type |-> "WriteError", Path |-> path, Err |-> cause]

\* os.MkdirAll(p): the missing directories are made from the root down; the
\* first one that cannot be made (a file stands there, or the environment
\* refuses it) ends the call with an error, the ones above it stay.
MkdirAll(f, env, p) ==
    LET bad == {k \in 1..Len(p) :
                    /\ SubSeq(p, 1, k) \notin f.dirs
                    /\ \/ SubSeq(p, 1, k) \in DOMAIN f.files
                       \/ SubSeq(p, 1, k) \in env.denyMkdir}
        stop == IF bad = {} THEN Len(p) + 1
                ELSE CHOOSE k \in bad : \A j \in bad : k <= j
        made == {SubSeq(p, 1, k) : k \in 1..(stop - 1)}
    IN  [fs |-> [f EXCEPT !.dirs = @ \cup made],
         err |-> IF bad = {} THEN << >> ELSE << "mkdir failed" >>]

\* os.WriteFile(path, data): the file is created or replaced; it fails when
\* the parent is no directory, the path is a directory, or the environment
\* refuses the write.
OsWriteFile(f, env, path, data) ==
    IF \/ (Len(path) > 1 /\ Dir(path) \notin f.dirs)
       \/ path \in f.dirs
       \/ path \in env.denyWrite
    THEN [fs |-> f, err |-> << "write failed" >>]
    ELSE [fs |-> [f EXCEPT !.files =
                        (path :> data) @@ [q \in DOMAIN @ \ {path} |-> @[q]]],
          err |-> << >>]

\* Marshal of an adapter other than agentkit: bytes that depend on the
\* format and the agent only.
ForeignMarshal(format, agent) ==
    [data |-> << [format |-> format, agent |-> agent] >>, err |-> << >>]

\* Mutant of WriteFile: the file is written without making its directory.
WriteFile_NoMkdir(adapter, f, env, agent, path, tools) ==
    LET m == IF adapter.name = AdapterName THEN Marshal(agent, tools)
             ELSE ForeignMarshal(adapter.name, agent)
        w == OsWriteFile(f, env, path, m.data[1])
    IN  IF m.err # << >> THEN [fs |-> f, err |-> m.err]
        ELSE IF w.err # << >> THEN [fs |-> w.fs, err |-> << WriteError(path, w.err[1]) >>]
        ELSE [fs |-> w.fs, err |-> << >>]

\* adapter.WriteFile(agent, path): Marshal, then the parent directory, then
\* the file. tools is the map iteration order Marshal meets.
WriteFile(adapter, f, env, agent, path, tools) ==
    LET m == IF adapter.name = AdapterName THEN Marshal(agent, tools)
             ELSE ForeignMarshal(adapter.name, agent)
        d == MkdirAll(f, env, Dir(path))
        w == OsWriteFile(d.fs, env, path, m.data[1])
    IN  IF m.err # << >> THEN [fs |-> f, err |-> m.err]
        ELSE IF d.err # << >> THEN [fs |-> d.fs, err |-> << WriteError(path, d.err[1]) >>]
        ELSE IF w.err # << >> THEN [fs |-> w.fs, err |-> << WriteError(path, w.err[1]) >>]
        ELSE [fs |-> w.fs, err |-> << >>]

ReadError(path, cause) == [type |-> "ReadError", Path |-> path, Err |-> cause]

\* os.ReadFile(path): the content of the file; it fails when no file stands
\* at the path (nothing, or a directory) or the environment refuses the read.
OsReadFile(f, env, path) ==
    IF path \notin DOMAIN f.files THEN [data |-> << >>, err |-> << "open failed" >>]
    ELSE IF path \in env.denyRead THEN [data |-> << >>, err |-> << "permission denied" >>]
    ELSE [data |-> << f.files[path] >>, err |-> << >>]

\* Mutant of ReadFile: a file that cannot be read is parsed as empty input.
ReadFile_ParseMissing(f, env, path, rev) ==
    LET r == OsReadFile(f, env, path)
        data == IF r.err # << >> THEN Doc(<< >>, FALSE, FALSE) ELSE r.data[1]
        pr == Parse(data, rev)
    IN  [agent |-> pr.agent, err |-> pr.err, parsed |-> << data >>]

\* a.ReadFile(path): os.ReadFile, then Parse on the bytes read. parsed is
\* the argument of the Parse call, if one is made; rev is the reverse table
\* that call builds.
ReadFile(f, env, path, rev) ==
    LET r == OsReadFile(f, env, path)
    IN  IF r.err # << >>
        THEN [agent |-> << >>, err |-> << ReadError(path, r.err[1]) >>, parsed |-> << >>]
        ELSE LET pr == Parse(r.data[1], rev)
             IN  [agent |-> pr.agent, err |-> pr.err, parsed |-> r.data]

(***************************************************************************)
(* genagents: generateAgents.                                              *)
(***************************************************************************)
\* The map iteration orders the Marshal calls of one generation can meet:
\* one tools order per agent.
OrderChoices(agentList) ==
    {o \in [DOMAIN agentList -> UNION {RangeToolSet(agentList[i]) : i \in DOMAIN agentList}] :
        \A i \in DOMAIN agentList : o[i] \in RangeToolSet(agentList[i])}

RECURSIVE WriteAgents_NamesDir(_, _, _, _, _, _, _)
\* Mutant of WriteAgents: the error names the output directory, not the
\* file that failed.
WriteAgents_NamesDir(f, env, adapter, agentList, outputDir, orders, i) ==
    IF i > Len(agentList) THEN [fs |-> f, err |-> << >>]
    ELSE LET path == PathJoin(outputDir, agentList[i].Name \o adapter.ext)
             w == WriteFile(adapter, f, env, agentList[i], path, orders[i])
         IN  IF w.err # << >>
             THEN [fs |-> w.fs,
                   err |-> << Errorf(<< "failed to write ", PathString(outputDir), ": " >>,
                                     w.err) >>]
             ELSE WriteAgents_NamesDir(w.fs, env, adapter, agentList, outputDir, orders, i + 1)

RECURSIVE WriteAgents(_, _, _, _, _, _, _)
\* The loop "for _, agent := range agentList" from agent i on: it returns at
\* the first agent whose file cannot be written.
WriteAgents(f, env, adapter, agentList, outputDir, orders, i) ==
    IF i > Len(agentList) THEN [fs |-> f, err |-> << >>]
    ELSE LET path == PathJoin(outputDir, agentList[i].Name \o adapter.ext)
             w == WriteFile(adapter, f, env, agentList[i], path, orders[i])
         IN  IF w.err # << >>
             THEN [fs |-> w.fs,
                   err |-> << Errorf(<< "failed to write ", PathString(path), ": " >>, w.err) >>]
             ELSE WriteAgents(w.fs, env, adapter, agentList, outputDir, orders, i + 1)

\* Mutant of generateAgents: the adapter is looked up before the output
\* directory is made.
generateAgents_LookupFirst(f, env, agentList, format, outputDir, orders) ==
    LET d == MkdirAll(f, env, outputDir)
        a == GetAdapter(format)
    IN  IF ~a.ok
        THEN [fs |-> f,
              err |-> << Errorf(<< "unknown format ", Quote(format), " (available: " >>
                               \o Join(AdapterNames, ", ") \o << ")" >>, << >>) >>]
        ELSE IF d.err # << >>
        THEN [fs |-> d.fs,
              err |-> << Errorf(<< "failed to create output directory: " >>, d.err) >>]
        ELSE WriteAgents(d.fs, env, a.adapter[1], agentList, outputDir, orders, 1)

\* Mutant of generateAgents: the unknown-format error lists a fixed set of
\* names instead of the registered ones.
generateAgents_StaleList(f, env, agentList, format, outputDir, orders) ==
    LET d == MkdirAll(f, env, outputDir)
        a == GetAdapter(format)
    IN  IF d.err # << >>
        THEN [fs |-> d.fs,
              err |-> << Errorf(<< "failed to create output directory: " >>, d.err) >>]
        ELSE IF ~a.ok
        THEN [fs |-> d.fs,
              err |-> << Errorf(<< "unknown format ", Quote(format), " (available: ",
                                  "claude", ", ", "kiro", ")" >>, << >>) >>]
        ELSE WriteAgents(d.fs, env, a.adapter[1], agentList, outputDir, orders, 1)

\* generateAgents(agentList, format, outputDir, verbose): the file system it
\* leaves and the error it returns.
generateAgents(f, env, agentList, format, outputDir, orders) ==
    LET d == MkdirAll(f, env, outputDir)
        a == GetAdapter(format)
    IN  IF d.err # << >>
        THEN [fs |-> d.fs,
              err |-> << Errorf(<< "failed to create output directory: " >>, d.err) >>]
        ELSE IF ~a.ok
        THEN [fs |-> d.fs,
              err |-> << Errorf(<< "unknown format ", Quote(format), " (available: " >>
                               \o Join(AdapterNames, ", ") \o << ")" >>, << >>) >>]
        ELSE WriteAgents(d.fs, env, a.adapter[1], agentList, outputDir, orders, 1)

(***************************************************************************)
(* The full agentkit configuration (DefaultConfig, GenerateFullConfig,     *)
(* WriteFullConfig).                                                       *)
(***************************************************************************)
JObject(members) == [t |-> "object", s |-> "", a |-> members, n |-> 0]
JBool(b) == [t |-> "bool", s |-> IF b THEN "true" ELSE "false", a |-> << >>, n |-> 0]
JFloat(text) == [t |-> "number", s |-> text, a |-> << >>, n |-> 0]

DefaultConfig ==
    [Mode |-> "local",
     Workspace |-> ".",
     Agents |-> << >>,
     MCP |-> [Enabled |-> TRUE, Transport |-> "stdio", Port |-> 0,
              ServerName |-> "agentkit-local", ServerVersion |-> "1.0.0"],
     LLM |-> [Provider |-> "anthropic", Model |-> "claude-3-5-sonnet-20241022",
              APIKey |-> "${ANTHROPIC_API_KEY}", BaseURL |-> "", Temperature |-> "0.7"],
     Timeouts |-> [AgentInvoke |-> "5m", ShellCommand |-> "2m", FileRead |-> "30s",
                   ParallelTotal |-> "10m"]]

\* Mutant of GenerateFullConfig: DefaultConfig hands out one shared Config,
\* so the agents of the call before are still in it.
GenerateFullConfig_Shared(agents, orders) ==
    [DefaultConfig EXCEPT
        !.Agents = (IF call.op = "GenerateFullConfig" THEN call.retData[1].Agents ELSE << >>)
                   \o [i \in DOMAIN agents |-> agentToConfig(agents[i], orders[i])]]

\* GenerateFullConfig(agents): the default configuration with one
\* AgentConfig appended per agent, in order. orders[i] is the map iteration
\* order agentToConfig meets for agent i.
GenerateFullConfig(agents, orders) ==
    [DefaultConfig EXCEPT
        !.Agents = [i \in DOMAIN agents |-> agentToConfig(agents[i], orders[i])]]

\* The members a string field with omitempty contributes.
OmitEmpty(key, str) == IF str = "" THEN << >> ELSE << Member(key, JString(str)) >>

\* json.MarshalIndent of a Config: the fields in declaration order, each
\* agent as MarshalIndent writes an AgentConfig; Agents is never nil, so it
\* is an array even when it is empty.
MarshalConfigIndent(cfg) ==
    LET agentsVal == JArray([i \in DOMAIN cfg.Agents |->
                                JObject(MarshalIndent(cfg.Agents[i]).data[1].members)])
        mcp == << Member("enabled", JBool(cfg.MCP.Enabled)),
                  Member("transport", JString(cfg.MCP.Transport)) >>
               \o (IF cfg.MCP.Port = 0 THEN << >>
                   ELSE << Member("port", JNumber(cfg.MCP.Port)) >>)
               \o OmitEmpty("server_name", cfg.MCP.ServerName)
               \o OmitEmpty("server_version", cfg.MCP.ServerVersion)
        llm == << Member("provider", JString(cfg.LLM.Provider)),
                  Member("model", JString(cfg.LLM.Model)) >>
               \o OmitEmpty("api_key", cfg.LLM.APIKey)
               \o OmitEmpty("base_url", cfg.LLM.BaseURL)
               \o (IF cfg.LLM.Temperature = "0" THEN << >>
                   ELSE << Member("temperature", JFloat(cfg.LLM.Temperature)) >>)
        timeouts == << Member("agent_invoke", JString(cfg.Timeouts.AgentInvoke)),
                       Member("shell_command", JString(cfg.Timeouts.ShellCommand)),
                       Member("file_read", JString(cfg.Timeouts.FileRead)),
                       Member("parallel_total", JString(cfg.Timeouts.ParallelTotal)) >>
    IN  [data |-> << Doc(<< Member("mode", JString(cfg.Mode)),
                            Member("workspace", JString(cfg.Workspace)),
                            Member("agents", agentsVal),
                            Member("mcp", JObject(mcp)),
                            Member("llm", JObject(llm)),
                            Member("timeouts", JObject(timeouts)) >>, TRUE, FALSE) >>,
         err |-> << >>]

\* WriteFullConfig(agents, path): encode, make the parent directory, write
\* the bytes followed by a newline.
WriteFullConfig(f, env, agents, path, orders) ==
    LET m == MarshalConfigIndent(GenerateFullConfig(agents, orders))
        d == MkdirAll(f, env, Dir(path))
        w == OsWriteFile(d.fs, env, path, [m.data[1] EXCEPT !.newline = TRUE])
    IN  IF m.err # << >> THEN [fs |-> f, err |-> << MarshalError("agentkit", m.err[1]) >>]
        ELSE IF d.err # << >> THEN [fs |-> d.fs, err |-> << WriteError(path, d.err[1]) >>]
        ELSE IF w.err # << >> THEN [fs |-> w.fs, err |-> << WriteError(path, w.err[1]) >>]
        ELSE [fs |-> w.fs, err |-> << >>]

(***************************************************************************)
(* genagents: generateForPlatform.                                         *)
(***************************************************************************)
\* toPascalCase on the team names of the model.
PascalTable == "stats-agent-team" :> "StatsAgentTeam" @@ "team" :> "Team"

toPascalCase(str) == IF str \in DOMAIN PascalTable THEN PascalTable[str] ELSE str

\* awsagentcore.WriteCDKProject(teamName, agentList, outputDir, config): the
\* project is written under outputDir, or the call fails when outputDir
\* cannot be made.
WriteCDKProject(f, env, teamName, agentList, outputDir, config) ==
    LET d == MkdirAll(f, env, outputDir)
        w == OsWriteFile(d.fs, env, PathJoin(outputDir, "cdk.json"),
                         [format |-> "cdk", team |-> teamName, config |-> config])
    IN  IF d.err # << >> THEN [fs |-> d.fs, err |-> << Errorf(<< "cdk project failed" >>, << >>) >>]
        ELSE IF w.err # << >> THEN [fs |-> w.fs, err |-> << Errorf(<< "cdk project failed" >>, << >>) >>]
        ELSE [fs |-> w.fs, err |-> << >>]

KubernetesPlatforms == {"aws-eks", "azure-aks", "gcp-gke", "kubernetes"}

\* generateForPlatform(teamName, agentList, target, outputDir, verbose).
\* Mutant of generateForPlatform: a platform the switch does not list is
\* skipped without an error.
generateForPlatform_SkipUnknown(f, env, teamName, agentList, target, outputDir, orders) ==
    CASE target.Platform = "claude-code" ->
            generateAgents(f, env, agentList, "claude", outputDir, orders)
      [] target.Platform = "kiro-cli" ->
            generateAgents(f, env, agentList, "kiro", outputDir, orders)
      [] target.Platform = "agentkit-local" ->
            WriteFullConfig(f, env, agentList, PathJoin(outputDir, "config.json"), orders)
      [] target.Platform = "aws-agentcore" ->
            WriteCDKProject(f, env, teamName, agentList, outputDir,
                            [StackName |-> toPascalCase(teamName) \o "Stack"])
      [] OTHER -> [fs |-> f, err |-> << >>]

\* generateForPlatform(teamName, agentList, target, outputDir): the switch
\* on target.Platform.
generateForPlatform(f, env, teamName, agentList, target, outputDir, orders) ==
    CASE target.Platform = "claude-code" ->
            generateAgents(f, env, agentList, "claude", outputDir, orders)
      [] target.Platform = "kiro-cli" ->
            generateAgents(f, env, agentList, "kiro", outputDir, orders)
      [] target.Platform = "agentkit-local" ->
            WriteFullConfig(f, env, agentList, PathJoin(outputDir, "config.json"), orders)
      [] target.Platform = "aws-agentcore" ->
            WriteCDKProject(f, env, teamName, agentList, outputDir,
                            [StackName |-> toPascalCase(teamName) \o "Stack"])
      [] target.Platform \in KubernetesPlatforms -> [fs |-> f, err |-> << >>]
      [] OTHER ->
            [fs |-> f,
             err |-> << Errorf(<< "unsupported platform: ", target.Platform >>, << >>) >>]

(***************************************************************************)
(* genagents: the command line it is started with and the environment it   *)
(* runs in.                                                                *)
(***************************************************************************)
MaxTargets == 2     \* longest list of targets (-targets, deployment.json)

Reviewer == Agent("reviewer", "desc", "body", << "Read", "Bash" >>, "sonnet")
Planner == Agent("planner", "desc", "body", << "CustomTool" >>, "")

\* What agents.ReadCanonicalDir can return: a list of agents, or an error.
ReadResults ==
    {[agents |-> l, err |-> << >>] : l \in {<< >>, << Reviewer >>, << Reviewer, Planner >>}}
    \cup {[agents |-> << >>, err |-> << "read failed" >>]}

\* The "format:dir" pairs of -targets after strings.SplitN(pair, ":", 2): two
\* parts, or one when the pair holds no colon.
PairUniverse ==
    {<< "claude", << "out", "claude" >> >>, << " kiro", << " out", "kiro " >> >>,
     << "agentkit", << "out", "agentkit" >> >>, << "doesnotexist", << "out", "x" >> >>,
     << "claude" >>}

Target(name, platform, priority, output) ==
    [Name |-> name, Platform |-> platform, Priority |-> priority, Output |-> output]

TargetUniverse ==
    {Target("local-claude", "claude-code", "p1", << "out", "claude" >>),
     Target("local-kiro", "kiro-cli", "p2", << "out", "kiro" >>),
     Target("local-agentkit", "agentkit-local", "p1", << "out", "agentkit" >>),
     Target("cluster", "kubernetes", "p2", << "out", "k8s" >>),
     Target("paas", "heroku", "p1", << "out", "heroku" >>),
     Target("cloud", "aws-agentcore", "p3", << "out", "cdk" >>)}

\* What reading and decoding deployment.json can give: a read error, a
\* decode error, or the deployment.
Deployment(readErr, parseErr, targets) ==
    [readErr |-> readErr, parseErr |-> parseErr, Team |-> "stats-agent-team",
     Targets |-> targets]

NoDeployment == Deployment(<< "no such file" >>, << >>, << >>)

Deployments ==
    {Deployment(<< >>, << >>, t) : t \in SeqsUpTo(TargetUniverse, MaxTargets)}
    \cup {NoDeployment, Deployment(<< >>, << "unexpected end of JSON input" >>, << >>)}

\* What the environment refuses (directories that cannot be made, files
\* that cannot be written) and what it holds (the agent specs, the
\* deployment file).
Environments(deployments) ==
    {[denyMkdir |-> dm, denyWrite |-> dw, agentsRead |-> r, deployment |-> d] :
        dm \in {{}, {<< "out", "kiro" >>, << "out", "x" >>, << "proj", "out", "kiro" >>}},
        dw \in {{}, {<< "out", "claude", "planner.md" >>,
                     << "out", "agentkit", "reviewer.json" >>,
                     << "proj", "out", "claude", "planner.md" >>,
                     << "proj", "out", "agentkit", "config.json" >>}},
        r \in ReadResults,
        d \in deployments}

Flags(specDir, outputDir, format, targets, project, priority, env) ==
    [specDir |-> specDir, outputDir |-> outputDir, format |-> format,
     targets |-> targets, project |-> project, priority |-> priority, env |-> env]

\* -targets given (a non-empty list of pairs), or -output and -format, or
\* none of them, or -project with or without -priority.
CommandLines ==
    {Flags("plugins/spec/agents", << >>, "claude", t, << >>, "", e) :
        t \in SeqsUpTo(PairUniverse, MaxTargets) \ {<< >>},
        e \in Environments({NoDeployment})}
    \cup {Flags("plugins/spec/agents", o, f, << >>, << >>, "", e) :
            o \in {<< >>, << << "out", "agents" >> >>},
            f \in {"claude", "agentkit", "doesnotexist"},
            e \in Environments({NoDeployment})}
    \cup {Flags("plugins/spec/agents", << >>, "claude", << >>, << << "proj" >> >>, p, e) :
            p \in {"", "p1"}, e \in Environments(Deployments)}

NoInput == [kind |-> "none", agent |-> << >>, data |-> << >>]

InitGen ==
    /\ toolMapping = toolMappingTable
    /\ modelMapping = modelMappingTable
    /\ input = NoInput
    /\ call = NoCall
    /\ threads = NoThreads
    /\ pc = "init"
    /\ registry = EmptyMap
    /\ flags \in CommandLines
    /\ idx = 0
    /\ fs = EmptyFS
    /\ attempted = << >>
    /\ stderr = << >>
    /\ exitCode = -1

\* The init function of one linked adapter package: core.Register(&Adapter{}).
RegisterAdapter ==
    /\ pc = "init"
    /\ \E a \in LinkedAdapters :
          /\ a.name \notin DOMAIN registry
          /\ registry' = Register(registry, a)
    /\ UNCHANGED <<adapterVars, threads, pc, flags, idx, fs, attempted, stderr, exitCode>>

\* Mutant of Registered: main does not wait for the init functions.
Registered_NotAwaited == TRUE

\* Every init function of the linked adapter packages has run: the Go
\* runtime starts main only then.
Registered == \A a \in LinkedAdapters : a.name \in DOMAIN registry

\* os.Exit(1) after a report on standard error.
Fail(report) ==
    /\ stderr' = Append(stderr, report)
    /\ pc' = "exit"
    /\ exitCode' = 1

\* main returns.
Return ==
    /\ pc' = "exit"
    /\ exitCode' = 0
    /\ UNCHANGED stderr

\* main, from flag.Parse to the targets loop, or to the end when a single
\* target is asked for.
MainStart ==
    /\ pc = "init"
    /\ Registered
    /\ flags.project = << >>
    /\ LET r == flags.env.agentsRead
       IN  IF r.err # << >>
           THEN /\ Fail(Errorf(<< "Error reading spec directory ", flags.specDir, ": " >>, r.err))
                /\ UNCHANGED <<idx, fs, attempted>>
           ELSE IF Len(r.agents) = 0
           THEN /\ Fail(Errorf(<< "No agents found in ", flags.specDir >>, << >>))
                /\ UNCHANGED <<idx, fs, attempted>>
           ELSE IF flags.targets # << >>
           THEN /\ pc' = "targets"
                /\ idx' = 1
                /\ UNCHANGED <<fs, attempted, stderr, exitCode>>
           ELSE IF flags.outputDir = << >>
           THEN /\ Fail(Errorf(<< "Error: -output, -targets, or -project required" >>, << >>))
                /\ UNCHANGED <<idx, fs, attempted>>
           ELSE \E orders \in OrderChoices(r.agents) :
                    LET g == generateAgents(fs, flags.env, r.agents, flags.format,
                                            flags.outputDir[1], orders)
                    IN  /\ fs' = g.fs
                        /\ attempted' = Append(attempted, 1)
                        /\ UNCHANGED idx
                        /\ IF g.err # << >>
                           THEN Fail(Errorf(<< "Error generating agents: " >>, g.err))
                           ELSE Return
    /\ UNCHANGED <<adapterVars, threads, registry, flags>>

\* One turn of the loop "for _, pair := range targetPairs" of main.
MainTarget ==
    /\ pc = "targets"
    /\ LET pair == flags.targets[idx]
           agentList == flags.env.agentsRead.agents
       IN  IF Len(pair) # 2
           THEN /\ Fail(Errorf(<< "Invalid target format: ", pair[1],
                                  " (expected format:dir)" >>, << >>))
                /\ UNCHANGED <<idx, fs, attempted>>
           ELSE \E orders \in OrderChoices(agentList) :
                    LET targetFormat == TrimSpace(pair[1])
                        targetDir == TrimSpacePath(pair[2])
                        g == generateAgents(fs, flags.env, agentList, targetFormat,
                                            targetDir, orders)
                    IN  /\ fs' = g.fs
                        /\ attempted' = Append(attempted, idx)
                        /\ IF g.err # << >>
                           THEN /\ Fail(Errorf(<< "Error generating ", targetFormat,
                                                  " agents: " >>, g.err))
                                /\ UNCHANGED idx
                           ELSE IF idx = Len(flags.targets)
                           THEN Return /\ UNCHANGED idx
                           ELSE /\ idx' = idx + 1
                                /\ UNCHANGED <<pc, stderr, exitCode>>
    /\ UNCHANGED <<adapterVars, threads, registry, flags>>

\* Mutant of ProjectStart: an empty agents directory is not an error.
ProjectStart_NoAgentsCheck ==
    /\ pc = "init"
    /\ Registered
    /\ flags.project # << >>
    /\ LET dep == flags.env.deployment
           r == flags.env.agentsRead
           report(e) == Errorf(<< "Error: " >>, << e >>)
       IN  IF dep.readErr # << >>
           THEN /\ Fail(report(Errorf(<< "failed to read deployment.json: " >>, dep.readErr)))
                /\ UNCHANGED idx
           ELSE IF dep.parseErr # << >>
           THEN /\ Fail(report(Errorf(<< "failed to parse deployment.json: " >>, dep.parseErr)))
                /\ UNCHANGED idx
           ELSE IF r.err # << >>
           THEN /\ Fail(report(Errorf(<< "failed to read agents: " >>, r.err)))
                /\ UNCHANGED idx
           ELSE IF Len(dep.Targets) = 0
           THEN Return /\ UNCHANGED idx
           ELSE /\ pc' = "project"
                /\ idx' = 1
                /\ UNCHANGED <<stderr, exitCode>>
    /\ UNCHANGED <<adapterVars, threads, registry, flags, fs, attempted>>

\* main with -project: runProjectMode, from its start to its loop over the
\* targets. An error it returns is reported by main, which exits with 1.
ProjectStart ==
    /\ pc = "init"
    /\ Registered
    /\ flags.project # << >>
    /\ LET dep == flags.env.deployment
           r == flags.env.agentsRead
           agentsDir == PathJoin(flags.project[1], "agents")
           report(e) == Errorf(<< "Error: " >>, << e >>)
       IN  IF dep.readErr # << >>
           THEN /\ Fail(report(Errorf(<< "failed to read deployment.json: " >>, dep.readErr)))
                /\ UNCHANGED idx
           ELSE IF dep.parseErr # << >>
           THEN /\ Fail(report(Errorf(<< "failed to parse deployment.json: " >>, dep.parseErr)))
                /\ UNCHANGED idx
           ELSE IF r.err # << >>
           THEN /\ Fail(report(Errorf(<< "failed to read agents: " >>, r.err)))
                /\ UNCHANGED idx
           ELSE IF Len(r.agents) = 0
           THEN /\ Fail(report(Errorf(<< "no agents found in ", PathString(agentsDir) >>, << >>)))
                /\ UNCHANGED idx
           ELSE IF Len(dep.Targets) = 0
           THEN Return /\ UNCHANGED idx
           ELSE /\ pc' = "project"
                /\ idx' = 1
                /\ UNCHANGED <<stderr, exitCode>>
    /\ UNCHANGED <<adapterVars, threads, registry, flags, fs, attempted>>

\* One turn of the loop "for _, target := range deployment.Targets" of
\* runProjectMode; after the last turn runProjectMode and main return.
ProjectTarget ==
    /\ pc = "project"
    /\ LET dep == flags.env.deployment
           target == dep.Targets[idx]
           agentList == flags.env.agentsRead.agents
           outputDir == flags.project[1] \o target.Output
           advance == IF idx = Len(dep.Targets)
                      THEN Return /\ UNCHANGED idx
                      ELSE /\ idx' = idx + 1
                           /\ UNCHANGED <<pc, stderr, exitCode>>
       IN  IF flags.priority # "" /\ target.Priority # flags.priority
           THEN /\ advance
                /\ UNCHANGED <<fs, attempted>>
           ELSE \E orders \in OrderChoices(agentList) :
                    LET g == generateForPlatform(fs, flags.env, dep.Team, agentList,
                                                 target, outputDir, orders)
                    IN  /\ fs' = g.fs
                        /\ attempted' = Append(attempted, idx)
                        /\ IF g.err # << >>
                           THEN /\ Fail(Errorf(<< "Error: " >>,
                                          << Errorf(<< "failed to generate ", target.Name, ": " >>,
                                                    g.err) >>))
                                /\ UNCHANGED idx
                           ELSE advance
    /\ UNCHANGED <<adapterVars, threads, registry, flags>>

NextGen == RegisterAdapter \/ MainStart \/ MainTarget \/ ProjectStart \/ ProjectTarget

SpecGen == InitGen /\ [][NextGen]_vars

(***************************************************************************)
(* Properties of Marshal and Parse.                                        *)
(***************************************************************************)
\* The tools array written in a document (empty when it is null or absent).
ToolsIn(doc) ==
    LET at == {i \in DOMAIN doc.members : doc.members[i].key = "tools"}
    IN  IF at = {} THEN << >> ELSE doc.members[CHOOSE i \in at : TRUE].val.a

\* The model written in a document ("" when it is omitted).
ModelIn(doc) ==
    LET at == {i \in DOMAIN doc.members : doc.members[i].key = "model"}
    IN  IF at = {} THEN "" ELSE doc.members[CHOOSE i \in at : TRUE].val.s

MarshalReturned == call.op = "Marshal" /\ call.retData # << >>

\* The destination the tables of the package source give a canonical tool.
Destination(tool) ==
    IF tool \in DOMAIN toolMappingTable THEN toolMappingTable[tool] ELSE ToLower(tool)

\* C1: in the output of Marshal every destination identifier of the tools
\* list occurs exactly once, whatever the agent's tools (repeated tools,
\* several tools with one destination, unknown tools that lower-case to a
\* mapped destination).
C1_NoDuplicateTools ==
    MarshalReturned =>
        LET out == ToolsIn(call.retData[1])
        IN  \A t \in Range(call.argAgent[1].Tools) : Count(out, Destination(t)) = 1

\* C1 witness: Marshal has collapsed two tools with the destination "shell",
\* one of them unknown, into a single entry.
C1_Witness ==
    /\ MarshalReturned
    /\ call.argAgent[1].Tools = << "Bash", "Shell" >>
    /\ ToolsIn(call.retData[1]) = << "shell" >>

\* C2: Marshal drops no tool: for every tool of the agent the output holds
\* its table value, or its lower-cased form when the table has no entry.
C2_NoToolDropped ==
    MarshalReturned =>
        \A t \in Range(call.argAgent[1].Tools) :
            Destination(t) \in Range(ToolsIn(call.retData[1]))

\* C2 witness: Marshal has written "customtool" for the unknown "CustomTool".
C2_Witness ==
    /\ MarshalReturned
    /\ "CustomTool" \in Range(call.argAgent[1].Tools)
    /\ "Read" \in Range(call.argAgent[1].Tools)
    /\ Range(ToolsIn(call.retData[1])) = {"customtool", "read"}

\* C3: two Marshal calls on the same agent return the same bytes, the tools
\* in the same order.
C3_MarshalDeterministic ==
    [][(call.op = "Marshal" /\ call'.op = "Marshal" /\ call'.argAgent = call.argAgent)
          => call'.retData = call.retData]_vars

WellKnownAgent(a) ==
    /\ Range(a.Tools) \subseteq DOMAIN toolMappingTable
    /\ a.Model \in DOMAIN modelMappingTable \cup {""}

\* C4: Parse(Marshal(E)) is E, field for field, for every agent E whose tools
\* are keys of the tool table and whose model is a well-known alias or empty.
C4_RoundTrip ==
    (call.op = "Parse" /\ call.src = "marshalled" /\ WellKnownAgent(input.agent[1]))
        => call.retAgent = input.agent

\* C5: the reverse table keeps one source per destination and the choice is
\* the same in every Parse call: two Parse calls on the same bytes return
\* the same agent.
C5_ReverseConsistent ==
    [][(call.op = "Parse" /\ call'.op = "Parse" /\ call'.argData = call.argData)
          => call'.retAgent = call.retAgent]_vars

\* C6: the agent Parse returns holds no agentkit vocabulary: its model is no
\* destination model of the model table and none of its tools is a
\* destination tool of the tool table.
C6_NoDestinationVocabulary ==
    (call.op = "Parse" /\ call.retAgent # << >>) =>
        /\ call.retAgent[1].Model \notin Range(modelMappingTable)
        /\ Range(call.retAgent[1].Tools) \cap Range(toolMappingTable) = {}

Malformed(doc) == ~doc.complete \/ Unmarshal(doc).err # << >>

\* C7: a Parse call on malformed bytes returns a nil agent and a ParseError
\* with Format "agentkit" and the decoder's error as Err, and the call
\* changes neither the mapping tables, nor the registry, nor the file system.
C7_ParseMalformed ==
    [][(call'.op = "Parse" /\ call' # call /\ Malformed(call'.argData[1])) =>
          /\ call'.retAgent = << >>
          /\ call'.err = << [type |-> "ParseError", Format |-> "agentkit",
                             Err |-> Unmarshal(call'.argData[1]).err[1]] >>
          /\ ~call'.argData[1].complete =>
                call'.err[1].Err = "SyntaxError: unexpected end of JSON input"
          /\ UNCHANGED <<toolMapping, modelMapping, registry, fs, input>>]_vars

\* C7 witness: Parse has returned the ParseError for a truncated text.
C7_Witness ==
    /\ call.op = "Parse"
    /\ call.argData = << Doc(<< >>, FALSE, FALSE) >>
    /\ call.retAgent = << >>
    /\ call.err # << >>
    /\ call.err[1].type = "ParseError"

\* C10: Marshal returns bytes and a nil error for every agent, whatever
\* unknown tools or unknown model it carries.
C10_MarshalNeverFailsOnVocabulary ==
    call.op = "Marshal" => (call.err = << >> /\ call.retData # << >>)

\* C10 witness: Marshal has returned bytes for an agent with an unknown tool
\* and an unknown model.
C10_Witness ==
    /\ call.op = "Marshal"
    /\ "CustomTool" \in Range(call.argAgent[1].Tools)
    /\ call.argAgent[1].Model = "GPT-4"
    /\ call.retData # << >>
    /\ ModelIn(call.retData[1]) = "GPT-4"

(***************************************************************************)
(* Properties of genagents.                                                *)
(***************************************************************************)
\* The targets a run is asked to generate: every pair of -targets, or the
\* targets of deployment.json that pass the -priority filter.
SelectedTargets ==
    IF flags.project # << >>
    THEN {i \in DOMAIN flags.env.deployment.Targets :
            flags.priority = "" \/ flags.env.deployment.Targets[i].Priority = flags.priority}
    ELSE DOMAIN flags.targets

\* The run got as far as its loop over the targets: the agents were read,
\* the pairs of -targets are well formed, deployment.json was decoded.
ReachesTargets ==
    /\ flags.env.agentsRead.err = << >>
    /\ Len(flags.env.agentsRead.agents) > 0
    /\ flags.project = << >> =>
          (flags.targets # << >> /\ \A i \in DOMAIN flags.targets : Len(flags.targets[i]) = 2)
    /\ flags.project # << >> =>
          (flags.env.deployment.readErr = << >> /\ flags.env.deployment.parseErr = << >>)

\* C8: in a multi-target run a target that fails does not end the run: when
\* the command exits, every selected target has been attempted.
C8_FailureDoesNotAbort ==
    (pc = "exit" /\ ReachesTargets) => Range(attempted) = SelectedTargets

\* The format and the directory of the generateAgents call main makes in
\* the current state (the turn of the -targets loop, or the single target).
RequestedFormat ==
    IF pc = "targets" THEN TrimSpace(flags.targets[idx][1]) ELSE flags.format

RequestedDir ==
    IF pc = "targets" THEN TrimSpacePath(flags.targets[idx][2]) ELSE flags.outputDir[1]

\* main calls generateAgents in this step, with a format that is not registered.
UnknownFormatCall ==
    /\ attempted' # attempted
    /\ flags.project = << >>
    /\ RequestedFormat \notin DOMAIN registry

IsAdapterName(x) == x \in Range(SortedNames)

\* The error reported last: the error generateAgents returned.
LastCause(reports) == reports[Len(reports)].cause[1]

UnknownFormatReported ==
    /\ exitCode' = 1
    /\ Len(stderr') = Len(stderr) + 1
    /\ Quote(RequestedFormat) \in Range(LastCause(stderr').msg)
    /\ SelectSeq(LastCause(stderr').msg, IsAdapterName) = AdapterNames
    /\ Range(AdapterNames) = DOMAIN registry
    /\ fs'.files = fs.files

\* C9 as stated: every request for a format that is not registered fails
\* with the error that holds the requested name and lists the registered
\* names, and writes no agent file.
C9_UnknownFormatAlways ==
    [][UnknownFormatCall => UnknownFormatReported]_vars

\* C9 amended: the same, when the output directory exists or can be made;
\* when it cannot, the call fails with the directory error, before any
\* lookup, and writes no file either.
C9_UnknownFormat ==
    [][UnknownFormatCall =>
          IF MkdirAll(fs, flags.env, RequestedDir).err = << >>
          THEN UnknownFormatReported
          ELSE /\ exitCode' = 1
               /\ LastCause(stderr').msg = << "failed to create output directory: " >>
               /\ fs'.files = fs.files]_vars

\* C9 witness: the run has ended on the unknown-format error for
\* "doesnotexist", its output directory made and no file written.
C9_Witness ==
    /\ pc = "exit"
    /\ exitCode = 1
    /\ flags.project = << >>
    /\ attempted # << >>
    /\ Quote("doesnotexist") \in Range(LastCause(stderr).msg)
    /\ "kiro" \in Range(LastCause(stderr).msg)
    /\ << "out", "x" >> \in fs.dirs
    /\ DOMAIN fs.files = {}

(***************************************************************************)
(* Properties of the translation policy.                                   *)
(***************************************************************************)
\* C11: Marshal translates the model as it translates a tool: a model of the
\* model table is written as its table value, any other non-empty model is
\* written lower-cased.
C11_ModelLowerCased ==
    MarshalReturned =>
        LET model == call.argAgent[1].Model
        IN  model # "" =>
                ModelIn(call.retData[1]) =
                    IF model \in DOMAIN modelMappingTable THEN modelMappingTable[model]
                    ELSE ToLower(model)

\* The tools array json.Unmarshal decodes from the bytes of a Parse call.
ParsedTools(doc) == Unmarshal(doc).cfg.Tools

\* C12: Parse keeps the tools list position by position: the canonical list
\* is as long as the decoded one, a destination of the tool table is
\* replaced by one of its sources, and any other tool is kept as it is
\* written, with no case change.
C12_ParseKeepsTools ==
    (call.op = "Parse" /\ call.retAgent # << >>) =>
        LET in == ParsedTools(call.argData[1])
            out == call.retAgent[1].Tools
        IN  /\ Len(out) = Len(in)
            /\ \A i \in DOMAIN in :
                  IF in[i] \in Range(toolMappingTable)
                  THEN out[i] \in DOMAIN toolMappingTable /\ toolMappingTable[out[i]] = in[i]
                  ELSE out[i] = in[i]

\* C12 witness: Parse has kept the unknown "CustomTool" in front of the
\* source it chose for "shell".
C12_Witness ==
    /\ call.op = "Parse"
    /\ call.retAgent # << >>
    /\ ParsedTools(call.argData[1]) = << "CustomTool", "shell" >>
    /\ call.retAgent[1].Tools = << "CustomTool", "Task" >>

(***************************************************************************)
(* The adapter's file operations: ReadFile, WriteFile and WriteFullConfig  *)
(* on a small file system.                                                 *)
(***************************************************************************)
Agentkit == AdapterRecord(AdapterName, ".json")

\* The caller's arguments: an agent, a path, and what the environment
\* refuses during the calls.
FileInput(agent, path, env) ==
    [kind |-> "file", agent |-> << agent >>, data |-> << >>, path |-> path, env |-> env]

FilePaths == {<< "a.json" >>, << "out", "a.json" >>, << "out", "sub", "a.json" >>}

FileEnvironments ==
    [denyMkdir : {{}, {<< "out", "sub" >>}},
     denyWrite : {{}, {<< "out", "a.json" >>, << "a.json" >>}},
     denyRead : {{}, {<< "out", "a.json" >>}}]

FileAgents == {Reviewer, Planner, Agent("demo", "", "", << "Edit", "Write" >>, "GPT-4")}

\* Content a file can hold before the calls: a document, a document cut
\* short, a document with a value of the wrong type.
FileDocs ==
    {Doc(<< Member("name", JString("demo")), Member("tools", JArray(<< "shell" >>)) >>,
         TRUE, TRUE),
     Doc(<< >>, FALSE, FALSE),
     Doc(<< Member("name", JNumber(1)) >>, TRUE, FALSE)}

\* The file systems the calls can start in: nothing, the directory "out"
\* with or without the file, a file or a directory standing in the way.
FileSystems ==
    {EmptyFS, [dirs |-> {<< "out" >>}, files |-> EmptyMap],
     [dirs |-> {<< "out" >>, << "out", "a.json" >>}, files |-> EmptyMap]}
    \cup {[dirs |-> {<< "out" >>}, files |-> (<< "out", "a.json" >> :> d)] : d \in FileDocs}
    \cup {[dirs |-> {}, files |-> (<< "out" >> :> d)] : d \in FileDocs}

InitFile ==
    /\ toolMapping = toolMappingTable
    /\ modelMapping = modelMappingTable
    /\ input \in {FileInput(a, p, e) : a \in FileAgents, p \in FilePaths,
                                        e \in FileEnvironments}
    /\ call = NoCall
    /\ threads = NoThreads
    /\ pc = "idle"
    /\ registry = EmptyMap
    /\ flags = << >>
    /\ idx = 0
    /\ fs \in FileSystems
    /\ attempted = << >>
    /\ stderr = << >>
    /\ exitCode = -1

\* a.ReadFile(path).
ReadFileCall ==
    /\ input.kind = "file"
    /\ \E rev \in reverseToolMappings :
          LET r == ReadFile(fs, input.env, input.path, rev)
          IN  call' = CallRecord("ReadFile", "file", << >>, << input.path >>, r.agent,
                                 r.parsed, r.err)
    /\ UNCHANGED <<toolMapping, modelMapping, input, threads, genVars>>

\* a.WriteFile(agent, path).
WriteFileCall ==
    /\ input.kind = "file"
    /\ \E tools \in RangeToolSet(input.agent[1]) :
          LET w == WriteFile(Agentkit, fs, input.env, input.agent[1], input.path, tools)
          IN  /\ fs' = w.fs
              /\ call' = CallRecord("WriteFile", "file", input.agent, << input.path >>,
                                    << >>, Marshal(input.agent[1], tools).data, w.err)
    /\ UNCHANGED <<toolMapping, modelMapping, input, threads, pc, registry, flags, idx,
                   attempted, stderr, exitCode>>

\* WriteFullConfig(agents, path) with the caller's agent as the only agent.
WriteFullConfigCall ==
    /\ input.kind = "file"
    /\ \E orders \in OrderChoices(input.agent) :
          LET w == WriteFullConfig(fs, input.env, input.agent, input.path, orders)
              m == MarshalConfigIndent(GenerateFullConfig(input.agent, orders))
          IN  /\ fs' = w.fs
              /\ call' = CallRecord("WriteFullConfig", "file", input.agent,
                                    << input.path >>, << >>,
                                    << [m.data[1] EXCEPT !.newline = TRUE] >>, w.err)
    /\ UNCHANGED <<toolMapping, modelMapping, input, threads, pc, registry, flags, idx,
                   attempted, stderr, exitCode>>

NextFile == ReadFileCall \/ WriteFileCall \/ WriteFullConfigCall

SpecFile == InitFile /\ [][NextFile]_vars

\* C13: ReadFile tells an I/O problem from a data problem. When the file
\* cannot be read it returns a nil agent and a ReadError with the path and
\* the cause, and Parse is not called; when the file is read, Parse is called
\* on its content, and malformed content gives a ParseError, never a
\* ReadError.
C13_ReadFileErrors ==
    call.op = "ReadFile" =>
        LET path == call.argData[1]
        IN  IF path \notin DOMAIN fs.files \/ path \in input.env.denyRead
            THEN /\ call.retAgent = << >>
                 /\ call.retData = << >>
                 /\ Len(call.err) = 1
                 /\ call.err[1].type = "ReadError"
                 /\ call.err[1].Path = path
                 /\ call.err[1].Err \in {"open failed", "permission denied"}
            ELSE /\ call.retData = << fs.files[path] >>
                 /\ Malformed(fs.files[path]) =>
                       /\ call.retAgent = << >>
                       /\ Len(call.err) = 1
                       /\ call.err[1].type = "ParseError"
                 /\ ~Malformed(fs.files[path]) => call.err = << >> /\ call.retAgent # << >>

\* C13 witness: ReadFile of a missing file has returned a ReadError.
C13_Witness ==
    /\ call.op = "ReadFile"
    /\ call.argData[1] \notin DOMAIN fs.files
    /\ call.err # << >>
    /\ call.err[1].type = "ReadError"

\* C13 second case reached: ReadFile of a file cut short has returned a
\* ParseError.
C13_WitnessMalformed ==
    /\ call.op = "ReadFile"
    /\ call.retData # << >>
    /\ ~call.retData[1].complete
    /\ call.err # << >>
    /\ call.err[1].type = "ParseError"

\* Nothing stands in the way of making directory p: no file at p or above
\* it, and no refusal by the environment.
CanMake(f, env, p) ==
    \A k \in 1..Len(p) :
        SubSeq(p, 1, k) \in f.dirs
        \/ (SubSeq(p, 1, k) \notin DOMAIN f.files /\ SubSeq(p, 1, k) \notin env.denyMkdir)

WriteStep == call'.op \in {"WriteFile", "WriteFullConfig"} /\ <<call, fs>>' # <<call, fs>>

\* C14: WriteFile and WriteFullConfig make the missing parent directory
\* before they write the file: when nothing stands in the way the call
\* succeeds, the directory exists afterwards and the file holds the encoded
\* bytes; a failure to make the directory or to write the file is a
\* WriteError with the target path, and a directory failure writes no file;
\* an encoding failure leaves the file system as it was.
C14_WriteCreatesParent ==
    [][WriteStep =>
          LET path == call'.argData[1]
              ok == CanMake(fs, input.env, Dir(path)) /\ path \notin fs.dirs
                    /\ path \notin input.env.denyWrite
          IN  /\ ok <=> call'.err = << >>
              /\ call'.err = << >> =>
                    /\ Dir(path) # << >> => Dir(path) \in fs'.dirs
                    /\ path \in DOMAIN fs'.files
                    /\ fs'.files[path] = call'.retData[1]
              /\ call'.err # << >> =>
                    /\ Len(call'.err) = 1
                    /\ call'.err[1].type \in {"WriteError", "MarshalError"}
                    /\ call'.err[1].type = "WriteError" =>
                          call'.err[1].Path = path /\ fs'.files = fs.files
                    /\ call'.err[1].type = "MarshalError" => fs' = fs
              /\ fs.dirs \subseteq fs'.dirs
              /\ \A q \in DOMAIN fs.files \ {path} :
                    q \in DOMAIN fs'.files /\ fs'.files[q] = fs.files[q]]_vars

\* C14 witness: WriteFile to a path whose parent directories did not exist
\* has succeeded, and the directories and the file are there.
C14_Witness ==
    /\ call.op = "WriteFile"
    /\ call.err = << >>
    /\ call.argData[1] = << "out", "sub", "a.json" >>
    /\ << "out", "sub" >> \in fs.dirs
    /\ call.argData[1] \in DOMAIN fs.files
    /\ fs.files[call.argData[1]] = call.retData[1]

\* C14 second case reached: WriteFullConfig has failed on the directory with
\* a WriteError that carries the path.
C14_WitnessFailure ==
    /\ call.op = "WriteFullConfig"
    /\ call.err # << >>
    /\ call.err[1].type = "WriteError"
    /\ call.err[1].Path = call.argData[1]
    /\ Dir(call.argData[1]) \notin fs.dirs

(***************************************************************************)
(* Concurrent callers of Marshal and Parse. Every caller holds the same    *)
(* agent pointer and the same byte slice; the mapping tables are package   *)
(* variables. A call is cut into the steps that read shared memory.        *)
(***************************************************************************)
ThreadIds == {"t1", "t2"}

\* A caller about to enter op, with the locals of the call still unset.
ThreadStart(op) ==
    [op |-> op, pc |-> "start", i |-> 1, toolSet |-> {}, cfg |-> << >>,
     rev |-> EmptyMap, tools |-> << >>, ret |-> << >>]

SharedInput(agent, data) == [kind |-> "shared", agent |-> << agent >>, data |-> << data >>]

SharedAgents ==
    {Reviewer, Planner, Agent("demo", "", "", << "Edit", "Write" >>, "GPT-4")}

SharedDocs ==
    {Doc(<< Member("name", JString("demo")),
            Member("tools", JArray(<< "shell", "CustomTool" >>)) >>, TRUE, TRUE),
     Doc(<< Member("name", JString("demo")), Member("tools", JNull) >>, TRUE, TRUE),
     Doc(<< >>, FALSE, FALSE)}

InitConc ==
    /\ toolMapping = toolMappingTable
    /\ modelMapping = modelMappingTable
    /\ input \in {SharedInput(a, d) : a \in SharedAgents, d \in SharedDocs}
    /\ call = NoCall
    /\ threads \in [ThreadIds -> {ThreadStart("Marshal"), ThreadStart("Parse")}]
    /\ GenIdle

\* Mutant of MapToolStep: the mapped tool is written back into agent.Tools.
MapToolStep_InPlace(agent, th) ==
    [th |-> [th EXCEPT !.toolSet = @ \cup {MapTool(agent.Tools[th.i])},
                       !.i = @ + 1,
                       !.pc = IF th.i = Len(agent.Tools) THEN "range" ELSE "tools"],
     agent |-> [agent EXCEPT !.Tools[th.i] = MapTool(agent.Tools[th.i])]]

\* One turn of "for _, tool := range agent.Tools": the mapped tool goes into
\* the call's own toolSet; agent is what the pointer refers to afterwards.
MapToolStep(agent, th) ==
    [th |-> [th EXCEPT !.toolSet = @ \cup {MapTool(agent.Tools[th.i])},
                       !.i = @ + 1,
                       !.pc = IF th.i = Len(agent.Tools) THEN "range" ELSE "tools"],
     agent |-> agent]

\* agentToConfig: cfg is built from the agent's name, description and
\* instructions, and toolSet is made.
MarshalBegin(t) ==
    /\ threads[t].op = "Marshal" /\ threads[t].pc = "start"
    /\ LET agent == input.agent[1]
       IN  threads' = [threads EXCEPT ![t] =
              [@ EXCEPT !.cfg = << AgentConfig(agent.Name, agent.Description,
                                               agent.Instructions, << >>, "", 0) >>,
                        !.pc = IF agent.Tools = << >> THEN "range" ELSE "tools"]]
    /\ UNCHANGED <<toolMapping, modelMapping, input, call, genVars>>

MarshalTool(t) ==
    /\ threads[t].op = "Marshal" /\ threads[t].pc = "tools"
    /\ LET r == MapToolStep(input.agent[1], threads[t])
       IN  /\ threads' = [threads EXCEPT ![t] = r.th]
           /\ input' = [input EXCEPT !.agent = << r.agent >>]
    /\ UNCHANGED <<toolMapping, modelMapping, call, genVars>>

\* "for tool := range toolSet": the keys in the order the map yields them.
MarshalRange(t) ==
    /\ threads[t].op = "Marshal" /\ threads[t].pc = "range"
    /\ \E order \in Orders(threads[t].toolSet) :
          threads' = [threads EXCEPT ![t] =
              [@ EXCEPT !.cfg = << [@[1] EXCEPT !.Tools = order] >>, !.pc = "model"]]
    /\ UNCHANGED <<toolMapping, modelMapping, input, call, genVars>>

MarshalModel(t) ==
    /\ threads[t].op = "Marshal" /\ threads[t].pc = "model"
    /\ threads' = [threads EXCEPT ![t] =
          [@ EXCEPT !.cfg = << [@[1] EXCEPT !.Model = MapModel(input.agent[1].Model)] >>,
                    !.pc = "encode"]]
    /\ UNCHANGED <<toolMapping, modelMapping, input, call, genVars>>

\* json.MarshalIndent on the call's cfg, and the newline.
MarshalEncode(t) ==
    /\ threads[t].op = "Marshal" /\ threads[t].pc = "encode"
    /\ LET enc == MarshalIndent(threads[t].cfg[1])
       IN  threads' = [threads EXCEPT ![t] =
              [@ EXCEPT !.pc = "done",
                        !.ret = << IF enc.err # << >>
                                   THEN [data |-> << >>,
                                         err |-> << MarshalError("agentkit", enc.err[1]) >>]
                                   ELSE [data |-> << [enc.data[1] EXCEPT !.newline = TRUE] >>,
                                         err |-> << >>] >>]]
    /\ UNCHANGED <<toolMapping, modelMapping, input, call, genVars>>

\* json.Unmarshal of the shared bytes into the call's own cfg.
ParseDecode(t) ==
    /\ threads[t].op = "Parse" /\ threads[t].pc = "start"
    /\ LET dec == Unmarshal(input.data[1])
       IN  threads' = [threads EXCEPT ![t] =
              IF dec.err # << >>
              THEN [@ EXCEPT !.pc = "done",
                             !.ret = << [agent |-> << >>,
                                         err |-> << ParseError("agentkit", dec.err[1]) >>] >>]
              ELSE [@ EXCEPT !.pc = "reverse", !.cfg = << dec.cfg >>]]
    /\ UNCHANGED <<toolMapping, modelMapping, input, call, genVars>>

\* configToAgent: the call's own reverse table, read off toolMapping.
ParseReverse(t) ==
    /\ threads[t].op = "Parse" /\ threads[t].pc = "reverse"
    /\ \E rev \in reverseToolMappings :
          threads' = [threads EXCEPT ![t] = [@ EXCEPT !.rev = rev, !.pc = "tools"]]
    /\ UNCHANGED <<toolMapping, modelMapping, input, call, genVars>>

\* "for _, tool := range cfg.Tools", one turn, and the return after the
\* last one.
ParseTool(t) ==
    /\ threads[t].op = "Parse" /\ threads[t].pc = "tools"
    /\ LET th == threads[t]
           cfg == th.cfg[1]
       IN  threads' = [threads EXCEPT ![t] =
              IF th.i > Len(cfg.Tools)
              THEN [@ EXCEPT !.pc = "done",
                             !.ret = << [agent |-> << Agent(cfg.Name, cfg.Description,
                                                            cfg.Instructions, th.tools,
                                                            cfg.Model) >>,
                                         err |-> << >>] >>]
              ELSE [@ EXCEPT !.tools = Append(@, ReverseTool(th.rev, cfg.Tools[th.i])),
                             !.i = @ + 1]]
    /\ UNCHANGED <<toolMapping, modelMapping, input, call, genVars>>

NextConc ==
    \E t \in ThreadIds :
        \/ MarshalBegin(t) \/ MarshalTool(t) \/ MarshalRange(t) \/ MarshalModel(t)
        \/ MarshalEncode(t) \/ ParseDecode(t) \/ ParseReverse(t) \/ ParseTool(t)

SpecConc == InitConc /\ [][NextConc]_vars

\* The results a call returns when it runs alone on the shared arguments.
Alone(op) ==
    IF op = "Marshal"
    THEN {Marshal(input.agent[1], tools) : tools \in RangeToolSet(input.agent[1])}
    ELSE {Parse(input.data[1], rev) : rev \in reverseToolMappings}

\* C15: Parse and Marshal are pure and safe under concurrency: no step of a
\* call changes the agent or the bytes the callers share, nor the tables
\* toolMapping and modelMapping, and whatever the interleaving, a call that
\* has returned has returned one of the results it returns when run alone.
C15_PureUnderConcurrency ==
    [][/\ input' = input
       /\ toolMapping' = toolMapping
       /\ modelMapping' = modelMapping
       /\ \A t \in DOMAIN threads :
             threads'[t].pc = "done" => threads'[t].ret[1] \in Alone(threads'[t].op)]_vars

\* C15 witness: a Marshal call and a Parse call that were in progress at
\* the same time have both returned, the Marshal call on an agent with
\* tools.
C15_Witness ==
    /\ DOMAIN threads = ThreadIds
    /\ threads["t1"].op = "Marshal" /\ threads["t1"].pc = "done"
    /\ threads["t2"].op = "Parse" /\ threads["t2"].pc = "done"
    /\ input.agent[1].Tools # << >>
    /\ threads["t1"].ret[1].err = << >>
    /\ threads["t2"].ret[1].err = << >>

(***************************************************************************)
(* Properties of the registry.                                             *)
(***************************************************************************)
\* A step of main: the command moves on, or generateAgents (and with it
\* GetAdapter or AdapterNames) is called.
MainStep == pc' # pc \/ idx' # idx \/ attempted' # attempted \/ stderr' # stderr

\* C16: registration happens only at process start-up: the registry changes
\* only while the init functions run, before any step of main, and then only
\* by a new name (no entry is removed or replaced); every step of main, and
\* so every GetAdapter and AdapterNames call, sees all linked adapters
\* registered and leaves the registry as it is.
C16_RegistrationAtStartup ==
    [][/\ registry' # registry =>
             /\ pc = "init" /\ pc' = "init"
             /\ attempted = << >> /\ stderr = << >>
             /\ \A n \in DOMAIN registry :
                   n \in DOMAIN registry' /\ registry'[n] = registry[n]
       /\ MainStep =>
             /\ registry' = registry
             /\ \A a \in LinkedAdapters :
                   a.name \in DOMAIN registry /\ registry[a.name] = a]_vars

\* C16 witness: generateAgents has looked an adapter up after the three
\* init functions registered theirs.
C16_Witness ==
    /\ pc = "exit"
    /\ attempted # << >>
    /\ DOMAIN registry = {"agentkit", "claude", "kiro"}
    /\ exitCode = 0

(***************************************************************************)
(* The registry under any sequence of Register and AdapterNames calls, as  *)
(* the design describes it: a duplicate name is reported, the listing is   *)
(* sorted.                                                                 *)
(***************************************************************************)
MaxRegisters == 3   \* most Register calls of one process

\* The adapters that can be registered: the linked ones and a second
\* implementation that also calls itself "agentkit".
RegistryAdapters == LinkedAdapters \cup {AdapterRecord("agentkit", ".yaml")}

DuplicateReport(name) == Errorf(<< "adapter already registered: ", name >>, << >>)

\* Mutant of RegisterOutcomes: the later adapter takes the name, unreported.
RegisterOutcomes_Silent(reg, adapter) ==
    {[registry |-> Register(reg, adapter), report |-> << >>, fatal |-> FALSE]}

\* What core.Register(adapter) can do: store the adapter; when the name is
\* taken, either overwrite and warn, or fail hard and keep the table.
RegisterOutcomes(reg, adapter) ==
    IF adapter.name \in DOMAIN reg
    THEN {[registry |-> Register(reg, adapter),
           report |-> << DuplicateReport(adapter.name) >>, fatal |-> FALSE],
          [registry |-> reg,
           report |-> << DuplicateReport(adapter.name) >>, fatal |-> TRUE]}
    ELSE {[registry |-> Register(reg, adapter), report |-> << >>, fatal |-> FALSE]}

\* Mutant of ListNames: the names in the order a map iteration yields them.
ListNames_MapOrder == Orders(DOMAIN registry)

\* The sequences one core.AdapterNames() call can return.
ListNames == {AdapterNames}

InitRegistry ==
    /\ toolMapping = toolMappingTable
    /\ modelMapping = modelMappingTable
    /\ input = NoInput
    /\ call = NoCall
    /\ threads = NoThreads
    /\ pc = "init"
    /\ registry = EmptyMap
    /\ flags = << >>
    /\ idx = 0
    /\ fs = EmptyFS
    /\ attempted = << >>
    /\ stderr = << >>
    /\ exitCode = -1

\* core.Register(adapter), the idx+1-th of the process.
RegisterCall ==
    /\ pc = "init"
    /\ idx < MaxRegisters
    /\ \E a \in RegistryAdapters : \E o \in RegisterOutcomes(registry, a) :
          /\ registry' = o.registry
          /\ stderr' = stderr \o o.report
          /\ pc' = IF o.fatal THEN "exit" ELSE pc
          /\ exitCode' = IF o.fatal THEN 2 ELSE exitCode
          /\ call' = CallRecord("Register", "registry", << >>, << a >>, << >>, << >>, << >>)
    /\ idx' = idx + 1
    /\ UNCHANGED <<toolMapping, modelMapping, input, threads, flags, fs, attempted>>

\* core.AdapterNames().
AdapterNamesCall ==
    /\ pc = "init"
    /\ \E names \in ListNames :
          call' = CallRecord("AdapterNames", "registry", << >>, << >>, << >>,
                             << names >>, << >>)
    /\ UNCHANGED <<toolMapping, modelMapping, input, threads, genVars>>

\* core.GetAdapter(name).
GetAdapterCall ==
    /\ pc = "init"
    /\ \E name \in {"agentkit", "doesnotexist"} :
          call' = CallRecord("GetAdapter", "registry", << >>, << name >>, << >>,
                             GetAdapter(name).adapter,
                             IF GetAdapter(name).ok THEN << >> ELSE << "not found" >>)
    /\ UNCHANGED <<toolMapping, modelMapping, input, threads, genVars>>

NextRegistry == RegisterCall \/ AdapterNamesCall \/ GetAdapterCall

SpecRegistry == InitRegistry /\ [][NextRegistry]_vars

\* C17: two AdapterNames calls with no Register call in between return the
\* same names in the same order.
C17_AdapterNamesStable ==
    [][(call.op = "AdapterNames" /\ call'.op = "AdapterNames" /\ idx' = idx) =>
          call'.retData = call.retData]_vars

\* C17 witness: AdapterNames has listed a registry of three names.
C17_Witness ==
    /\ call.op = "AdapterNames"
    /\ Len(call.retData[1]) = 3
    /\ Range(call.retData[1]) = DOMAIN registry

\* C18: a Register call under a name that is already registered is reported
\* on standard error, as a warning when the new adapter replaces the old
\* one, or with the process failing and the old adapter kept; the entry of
\* a name never changes without such a report.
C18_DuplicateDetected ==
    [][/\ (idx' # idx /\ call'.argData[1].name \in DOMAIN registry) =>
             /\ stderr' = Append(stderr, DuplicateReport(call'.argData[1].name))
             /\ \/ registry' = Register(registry, call'.argData[1]) /\ pc' = pc
                \/ registry' = registry /\ pc' = "exit" /\ exitCode' # 0
       /\ \A n \in DOMAIN registry :
             /\ n \in DOMAIN registry'
             /\ registry'[n] # registry[n] =>
                   stderr' = Append(stderr, DuplicateReport(n))]_vars

\* C18 witness: the second "agentkit" adapter has been registered over the
\* first one, and the duplicate has been reported.
C18_Witness ==
    /\ call.op = "Register"
    /\ call.argData[1] = AdapterRecord("agentkit", ".yaml")
    /\ "agentkit" \in DOMAIN registry
    /\ registry["agentkit"] = call.argData[1]
    /\ stderr = << DuplicateReport("agentkit") >>

(***************************************************************************)
(* Properties of a failed generation.                                      *)
(***************************************************************************)
\* The target attempted last, as generateAgents was called for it: the
\* format, the output directory, and whether generateAgents was called at
\* all (in project mode only the claude-code and kiro-cli platforms do).
LastAttempt ==
    LET k == attempted[Len(attempted)]
    IN  IF flags.project # << >>
        THEN LET target == flags.env.deployment.Targets[k]
             IN  [name |-> target.Name,
                  format |-> IF target.Platform = "claude-code" THEN "claude" ELSE "kiro",
                  dir |-> flags.project[1] \o target.Output,
                  generates |-> target.Platform \in {"claude-code", "kiro-cli"}]
        ELSE IF flags.targets # << >>
        THEN [name |-> "", format |-> TrimSpace(flags.targets[k][1]),
              dir |-> TrimSpacePath(flags.targets[k][2]), generates |-> TRUE]
        ELSE [name |-> "", format |-> flags.format, dir |-> flags.outputDir[1],
              generates |-> TRUE]

\* The run ended on a failure of the generateAgents call of LastAttempt.
GenerateFailed ==
    /\ pc = "exit" /\ exitCode = 1
    /\ ReachesTargets
    /\ attempted # << >>
    /\ LastAttempt.generates

\* The error generateAgents returned in that call, taken out of the report.
GenerateError ==
    IF flags.project # << >> THEN LastCause(stderr).cause[1] ELSE LastCause(stderr)

\* C19: a generation failure is attributable to one item. When the
\* directory was made and the format is registered, the failure of
\* generateAgents is the failure to write one agent: its error names the
\* path of that agent's file and wraps the WriteError for that path; the
\* files of the agents before it are there and neither its file nor a later
\* agent's file is; in project mode the report also names the target.
C19_FailureNamesItem ==
    GenerateFailed =>
        LET g == GenerateError
            a == LastAttempt
            agentList == flags.env.agentsRead.agents
            file(i) == PathJoin(a.dir, agentList[i].Name \o registry[a.format].ext)
        IN  /\ (a.format \in DOMAIN registry /\ a.dir \in fs.dirs) =>
                  /\ g.msg[1] = "failed to write "
                  /\ \E i \in DOMAIN agentList :
                        /\ g.msg[2] = PathString(file(i))
                        /\ g.cause[1].type = "WriteError"
                        /\ g.cause[1].Path = file(i)
                        /\ \A j \in 1..(i - 1) : file(j) \in DOMAIN fs.files
                        /\ \A j \in i..Len(agentList) : file(j) \notin DOMAIN fs.files
            /\ flags.project # << >> =>
                  LastCause(stderr).msg = << "failed to generate ", a.name, ": " >>

\* C19 witness: in project mode the claude-code target has failed on the
\* second agent: the report names the target and the file, the first
\* agent's file is there.
C19_Witness ==
    /\ GenerateFailed
    /\ flags.project # << >>
    /\ LastAttempt.format = "claude"
    /\ LastCause(stderr).msg[2] = "local-claude"
    /\ GenerateError.msg = << "failed to write ", "proj/out/claude/planner.md", ": " >>
    /\ << "proj", "out", "claude", "reviewer.md" >> \in DOMAIN fs.files
    /\ << "proj", "out", "claude", "planner.md" >> \notin DOMAIN fs.files

\* C19 second case reached: the agentkit adapter has failed on the first
\* agent, and the agent after it has not been written.
C19_WitnessFirstAgent ==
    /\ GenerateFailed
    /\ flags.project = << >>
    /\ LastAttempt.format = "agentkit"
    /\ Len(flags.env.agentsRead.agents) = 2
    /\ GenerateError.msg = << "failed to write ", "out/agentkit/reviewer.json", ": " >>
    /\ << "out", "agentkit", "planner.json" >> \notin DOMAIN fs.files

(***************************************************************************)
(* Properties of project mode.                                             *)
(***************************************************************************)
\* The indices of the deployment's targets the -priority filter selects, in
\* deployment.json order.
FilteredTargets ==
    LET targets == flags.env.deployment.Targets
    IN  SelectSeq([i \in DOMAIN targets |-> i],
                  LAMBDA i : flags.priority = "" \/ targets[i].Priority = flags.priority)

ProjectRunEnded == pc = "exit" /\ flags.project # << >> /\ ReachesTargets

\* C20: project-mode priority filter: when the run ends, exactly the targets
\* whose Priority equals a non-empty -priority value have been generated, in
\* deployment.json order (all of them when the filter is empty), and no
\* other target has.
C20_PriorityFilter ==
    ProjectRunEnded => attempted = FilteredTargets

\* The filter in the runs that end with status 0: the targets generated are
\* the selected ones, in order.
C20_PriorityFilterOnSuccess ==
    (ProjectRunEnded /\ exitCode = 0) => attempted = FilteredTargets

(***************************************************************************)
(* generateForPlatform on its own: one target of any platform, after the   *)
(* adapters have registered.                                               *)
(***************************************************************************)
PlatformUniverse ==
    {"claude-code", "kiro-cli", "agentkit-local", "aws-agentcore", "aws-eks",
     "azure-aks", "gcp-gke", "kubernetes", "heroku", "Claude-Code"}

\* The registry once every init function has run.
StartedRegistry == [n \in {a.name : a \in LinkedAdapters} |->
                        CHOOSE a \in LinkedAdapters : a.name = n]

PlatformEnvironments ==
    [denyMkdir : {{}, {<< "out" >>}},
     denyWrite : {{}, {<< "out", "planner.md" >>, << "out", "reviewer.json" >>,
                       << "out", "config.json" >>, << "out", "cdk.json" >>}}]

PlatformInput(agentList, target, env) ==
    [kind |-> "platform", agent |-> agentList, data |-> << target >>, env |-> env]

InitPlatform ==
    /\ toolMapping = toolMappingTable
    /\ modelMapping = modelMappingTable
    /\ input \in {PlatformInput(l, Target("t", p, "p1", << "out" >>), e) :
                    l \in {<< Reviewer >>, << Reviewer, Planner >>},
                    p \in PlatformUniverse, e \in PlatformEnvironments}
    /\ call = NoCall
    /\ threads = NoThreads
    /\ pc = "project"
    /\ registry = StartedRegistry
    /\ flags = << >>
    /\ idx = 0
    /\ fs \in {EmptyFS, [dirs |-> {<< "out" >>},
                         files |-> (<< "out", "notes.txt" >> :> "notes")]}
    /\ attempted = << >>
    /\ stderr = << >>
    /\ exitCode = -1

\* generateForPlatform(team, agentList, target, target.Output).
GenerateForPlatformCall ==
    /\ input.kind = "platform"
    /\ \E orders \in OrderChoices(input.agent) :
          LET target == input.data[1]
              g == generateForPlatform(fs, input.env, "stats-agent-team", input.agent,
                                       target, target.Output, orders)
          IN  /\ fs' = g.fs
              /\ call' = CallRecord("generateForPlatform", "platform", input.agent,
                                    << target >>, << >>, << >>, g.err)
    /\ idx' = idx + 1
    /\ idx < MaxTargets
    /\ UNCHANGED <<toolMapping, modelMapping, input, threads, pc, registry, flags,
                   attempted, stderr, exitCode>>

NextPlatform == GenerateForPlatformCall

SpecPlatform == InitPlatform /\ [][NextPlatform]_vars

\* Only the files of the set written can be new or can have changed.
OnlyWrites(written) ==
    /\ DOMAIN fs'.files \ DOMAIN fs.files \subseteq written
    /\ \A q \in DOMAIN fs.files \ written :
          q \in DOMAIN fs'.files /\ fs'.files[q] = fs.files[q]

\* The files of the agents, as adapter format writes them into dir.
AgentFiles(agentList, format, dir) ==
    {PathJoin(dir, agentList[i].Name \o registry[format].ext) : i \in DOMAIN agentList}

\* The step went through the adapter registered as format: on success every
\* agent has its file in that adapter's encoding, on failure the error is
\* generateAgents' own, and no other file is touched.
ThroughAdapter(format) ==
    LET files == AgentFiles(call'.argAgent, format, call'.argData[1].Output)
    IN  /\ OnlyWrites(files)
        /\ call'.err = << >> =>
              \A q \in files : q \in DOMAIN fs'.files /\ fs'.files[q].format = format
        /\ call'.err # << >> =>
              call'.err[1].msg[1] \in {"failed to create output directory: ",
                                       "failed to write "}

UnsupportedPlatform(p) == << Errorf(<< "unsupported platform: ", p >>, << >>) >>

\* The platforms of the claim's list, dispatched as the list says.
ListedPlatforms(p) ==
    /\ p = "claude-code" => ThroughAdapter("claude")
    /\ p = "kiro-cli" => ThroughAdapter("kiro")
    /\ p = "agentkit-local" =>
          /\ OnlyWrites({PathJoin(call'.argData[1].Output, "config.json")})
          /\ call'.err = << >> <=>
                PathJoin(call'.argData[1].Output, "config.json") \in DOMAIN fs'.files
    /\ p \in {"aws-eks", "azure-aks", "gcp-gke", "kubernetes"} =>
          call'.err = << >> /\ fs' = fs

Listed == {"claude-code", "kiro-cli", "agentkit-local", "aws-eks", "azure-aks",
           "gcp-gke", "kubernetes"}

\* C21 as stated: the listed platforms are dispatched as listed, and every
\* other platform identifier returns the "unsupported platform" error and
\* writes nothing.
C21_DispatchAsStated ==
    [][idx' # idx =>
          LET p == call'.argData[1].Platform
          IN  /\ ListedPlatforms(p)
              /\ p \notin Listed =>
                    call'.err = UnsupportedPlatform(p) /\ fs' = fs]_vars

\* C21 amended: the same, with "aws-agentcore" as one more platform of the
\* switch: it is handed to WriteCDKProject and never gives the "unsupported
\* platform" error; only the identifiers outside the switch do.
C21_Dispatch ==
    [][idx' # idx =>
          LET p == call'.argData[1].Platform
          IN  /\ ListedPlatforms(p)
              /\ p = "aws-agentcore" =>
                    call'.err # UnsupportedPlatform(p)
              /\ p \notin Listed \cup {"aws-agentcore"} =>
                    call'.err = UnsupportedPlatform(p) /\ fs' = fs]_vars

\* C21 witness: a target of a platform outside the switch has been refused
\* with nothing written.
C21_Witness ==
    /\ call.op = "generateForPlatform"
    /\ call.argData[1].Platform = "heroku"
    /\ call.err = UnsupportedPlatform("heroku")
    /\ DOMAIN fs.files \subseteq {<< "out", "notes.txt" >>}

\* C21 second case reached: the claude-code target has been written through
\* the claude adapter.
C21_WitnessAdapter ==
    /\ call.op = "generateForPlatform"
    /\ call.argData[1].Platform = "claude-code"
    /\ call.err = << >>
    /\ Len(call.argAgent) = 2
    /\ << "out", "planner.md" >> \in DOMAIN fs.files
    /\ fs.files[<< "out", "planner.md" >>].format = "claude"

(***************************************************************************)
(* Properties of the start of project mode.                                *)
(***************************************************************************)
\* The first check of runProjectMode that fails in this run's environment,
\* as the first words of the error it returns ("" when all three pass).
FailedCheck ==
    LET dep == flags.env.deployment
        r == flags.env.agentsRead
    IN  IF dep.readErr # << >> THEN "failed to read deployment.json: "
        ELSE IF dep.parseErr # << >> THEN "failed to parse deployment.json: "
        ELSE IF r.err # << >> THEN "failed to read agents: "
        ELSE IF Len(r.agents) = 0 THEN "no agents found in "
        ELSE ""

\* C22: runProjectMode attempts no target and writes nothing when
\* deployment.json is missing or malformed, when the agents directory
\* cannot be read, or when it holds no agents: the run ends with status 1 on
\* the error of that check ("no agents found" for the last one); targets
\* are attempted only in runs where the three checks pass.
C22_ChecksBeforeTargets ==
    flags.project # << >> =>
        /\ FailedCheck # "" =>
              /\ attempted = << >>
              /\ fs = EmptyFS
              /\ pc \in {"init", "exit"}
              /\ pc = "exit" =>
                    /\ exitCode = 1
                    /\ Len(stderr) = 1
                    /\ LastCause(stderr).msg[1] = FailedCheck
        /\ (attempted # << >> \/ pc = "project") => FailedCheck = ""

\* C22 witness: a project whose agents directory is empty has ended on "no
\* agents found" with no target attempted, although its deployment.json
\* lists targets.
C22_Witness ==
    /\ flags.project # << >>
    /\ pc = "exit"
    /\ flags.env.deployment.readErr = << >>
    /\ flags.env.deployment.parseErr = << >>
    /\ Len(flags.env.deployment.Targets) > 0
    /\ LastCause(stderr).msg = << "no agents found in ", "proj/agents" >>
    /\ attempted = << >>
    /\ fs = EmptyFS

(***************************************************************************)
(* GenerateFullConfig, called several times in one process.                *)
(***************************************************************************)
MaxAgents == 2      \* longest list of agents given to GenerateFullConfig
MaxCalls == 3       \* most GenerateFullConfig calls of one process

ConfigAgents ==
    {Reviewer, Planner, Agent("demo", "", "", << "Edit", "Write", "Edit" >>, "GPT-4"),
     Agent("ops", "", "", << "Task", "Glob" >>, "opus")}

InitConfig ==
    /\ toolMapping = toolMappingTable
    /\ modelMapping = modelMappingTable
    /\ input = NoInput
    /\ call = NoCall
    /\ threads = NoThreads
    /\ GenIdle

\* GenerateFullConfig(agents), the idx+1-th call.
GenerateFullConfigCall ==
    /\ idx < MaxCalls
    /\ \E agents \in SeqsUpTo(ConfigAgents, MaxAgents) :
          \E orders \in OrderChoices(agents) :
              call' = CallRecord("GenerateFullConfig", "config", agents, << >>, << >>,
                                 << GenerateFullConfig(agents, orders) >>, << >>)
    /\ idx' = idx + 1
    /\ UNCHANGED <<toolMapping, modelMapping, input, threads, pc, registry, flags, fs,
                   attempted, stderr, exitCode>>

NextConfig == GenerateFullConfigCall

SpecConfig == InitConfig /\ [][NextConfig]_vars

\* C23: GenerateFullConfig returns a config whose Agents list is as long as
\* the list of agents and in its order, entry i being a translation
\* agentToConfig gives of agent i, with every other field as in
\* DefaultConfig; this holds for every call whatever the calls before it
\* returned, a call starting from a fresh config.
C23_FullConfig ==
    [][idx' # idx =>
          LET agents == call'.argAgent
              cfg == call'.retData[1]
          IN  /\ Len(cfg.Agents) = Len(agents)
              /\ \A i \in DOMAIN agents :
                    \E tools \in RangeToolSet(agents[i]) :
                        cfg.Agents[i] = agentToConfig(agents[i], tools)
              /\ [cfg EXCEPT !.Agents = << >>] = DefaultConfig]_vars

\* C23 witness: a third call, on two agents, has returned a config of two
\* entries after earlier calls returned theirs.
C23_Witness ==
    /\ call.op = "GenerateFullConfig"
    /\ idx = 3
    /\ call.argAgent = << Planner, Reviewer >>
    /\ Len(call.retData[1].Agents) = 2
    /\ call.retData[1].Agents[1].Name = "planner"
    /\ call.retData[1].LLM = DefaultConfig.LLM

(***************************************************************************)
(* Regeneration: Marshal, Parse of the bytes, Marshal of the parsed agent. *)
(***************************************************************************)
\* Canonical tools of the regenerated agents: two sources of one
\* destination, a source of another, an unknown tool, and a tool already
\* written as a destination.
RegenToolUniverse == {"Bash", "WebFetch", "Edit", "CustomTool", "read"}

RegenAgents ==
    {Agent("demo", "desc", "body", t, m) :
        t \in SeqsUpTo(RegenToolUniverse, MaxTools), m \in {"", "sonnet", "GPT-4"}}

InitRegen ==
    /\ toolMapping = toolMappingTable
    /\ modelMapping = modelMappingTable
    /\ input \in {AgentInput(a) : a \in RegenAgents}
    /\ call = NoCall
    /\ threads = NoThreads
    /\ GenIdle

\* a.Marshal on the agent the last Parse call returned; the record keeps
\* the bytes that agent was parsed from.
MarshalParsed ==
    /\ call.op = "Parse"
    /\ call.retAgent # << >>
    /\ \E tools \in RangeToolSet(call.retAgent[1]) :
          LET r == Marshal(call.retAgent[1], tools)
          IN  call' = CallRecord("Marshal", "parsed", call.retAgent, call.argData, << >>,
                                 r.data, r.err)
    /\ UNCHANGED <<toolMapping, modelMapping, input, threads, genVars>>

NextRegen == MarshalCall \/ ParseMarshalled \/ MarshalParsed

SpecRegen == InitRegen /\ [][NextRegen]_vars

\* C24: regeneration is stable through a parse-back: the bytes Marshal
\* writes for the agent parsed from Marshal's own output hold the same set
\* of tools and the same model as that output, whichever sources the
\* reverse table held and whatever unknown tools or model the agent has.
C24_RegenerationStable ==
    (call.op = "Marshal" /\ call.src = "parsed") =>
        /\ call.err = << >>
        /\ Range(ToolsIn(call.retData[1])) = Range(ToolsIn(call.argData[1]))
        /\ ModelIn(call.retData[1]) = ModelIn(call.argData[1])

\* C24 witness: an agent with a collided destination, an unknown tool and a
\* model alias has been regenerated from a parse-back that picked another
\* source ("Task") than the agent's own.
C24_Witness ==
    /\ call.op = "Marshal" /\ call.src = "parsed"
    /\ input.agent[1].Tools = << "Bash", "CustomTool" >>
    /\ input.agent[1].Model = "sonnet"
    /\ "Task" \in Range(call.argAgent[1].Tools)
    /\ Range(ToolsIn(call.retData[1])) = {"shell", "customtool"}
    /\ ModelIn(call.retData[1]) = "claude-3-5-sonnet-20241022"

(***************************************************************************)
(* Frame of generateAgents on an unregistered format.                      *)
(***************************************************************************)
\* The step ended on generateAgents' unknown-format error.
UnknownFormatError ==
    /\ exitCode' = 1
    /\ Len(stderr') = Len(stderr) + 1
    /\ LastCause(stderr').msg[1] = "unknown format "
    /\ LastCause(stderr').msg[2] = Quote(RequestedFormat)

\* The output directory and the directories above it exist after the step.
DirectoryMade ==
    \A k \in 1..Len(RequestedDir) : SubSeq(RequestedDir, 1, k) \in fs'.dirs

\* C25 as stated: every generateAgents call with an unregistered format
\* returns the unknown-format error with no agent file written and the
\* output directory made.
C25_DirectoryBeforeLookupAlways ==
    [][UnknownFormatCall =>
          UnknownFormatError /\ fs'.files = fs.files /\ DirectoryMade]_vars

\* C25 amended: generateAgents makes the output directory before it looks
\* the adapter up: with an unregistered format and a directory that exists
\* or can be made, the call returns the unknown-format error, no agent file
\* written, the directory made; when the directory cannot be made the call
\* returns the directory error instead, the directory is not there, and no
\* file is written.
C25_DirectoryBeforeLookup ==
    [][UnknownFormatCall =>
          IF \A k \in 1..Len(RequestedDir) :
                SubSeq(RequestedDir, 1, k) \in fs.dirs
                \/ (SubSeq(RequestedDir, 1, k) \notin flags.env.denyMkdir
                    /\ SubSeq(RequestedDir, 1, k) \notin DOMAIN fs.files)
          THEN UnknownFormatError /\ fs'.files = fs.files /\ DirectoryMade
          ELSE /\ exitCode' = 1
               /\ LastCause(stderr').msg[1] = "failed to create output directory: "
               /\ RequestedDir \notin fs'.dirs
               /\ fs'.files = fs.files]_vars

\* C25 witness: after a first target was written, the second target's
\* unregistered format has ended the run with its directory made and empty.
C25_Witness ==
    /\ pc = "exit"
    /\ exitCode = 1
    /\ flags.project = << >>
    /\ attempted = << 1, 2 >>
    /\ LastCause(stderr).msg[1] = "unknown format "
    /\ << "out", "x" >> \in fs.dirs
    /\ DOMAIN fs.files # {}
    /\ \A q \in DOMAIN fs.files : SubSeq(q, 1, 2) # << "out", "x" >>

====
